---- MODULE Spec2Model ----
(***************************************************************************)
(* defmt-persist: a single-producer single-consumer byte ring that lives   *)
(* in RAM surviving a reset (src/src/ring_buffer.rs).                      *)
(*                                                                         *)
(* The persist region is {header, read, write, data}; everything else is   *)
(* lost at a reset.  One boot is: recover_or_reinitialize (one step per    *)
(* load/store of the region), split, and then Producer::write,             *)
(* Consumer::is_empty, Consumer::read and GrantR::release, each one step   *)
(* per atomic load/store/byte copy, interleaved in every order.  A reset   *)
(* may cut a boot between any two steps.                                   *)
(*                                                                         *)
(* Specifications: Spec is the ring on its own; SpecGeometry is init        *)
(* (src/src/lib.rs) over regions of every address and length; SpecInit is  *)
(* init on a small region with the logger (src/src/logger.rs) appending    *)
(* from interrupts while init runs, and the identifier slot; SpecLogger is *)
(* the logger's acquire / write / flush / release with preemption by       *)
(* interrupts and by contexts the critical section cannot mask; SpecAsync  *)
(* and SpecWaker are wait_for_data with the AtomicWaker                    *)
(* (src/src/atomic_waker.rs) against log statements, FairAsync adding that *)
(* a started log statement runs to its end; SpecTest and FairTest are the  *)
(* executor of testsuite/examples/async_test.rs; SpecAppend is the         *)
(* producer and the consumer after init under both layouts; SpecTwice runs *)
(* recovery a second time on the region the first run left; SpecFlag is    *)
(* init with log statements before and after LOGGER_STATE.initialize;      *)
(* SpecEcc and SpecEccRecover are the ring and its recovery in the         *)
(* `ecc-64bit` build.                                                      *)
(*                                                                         *)
(* Modelled build: the default feature set everywhere but in SpecAppend,   *)
(* SpecEcc and SpecEccRecover, which run the `ecc-64bit` layout: its       *)
(* padding slots, its flush of the last block written and its padding      *)
(* stores after the index stores.  In that build `cache` is the ECC write  *)
(* cache of ring_buffer.rs:16-27: one 64-bit word that is not in memory    *)
(* until it has been written in full or a store goes to another word; a    *)
(* reset keeps what memory holds.                                          *)
(*                                                                         *)
(* Bytes: the code never inspects a data byte, so the region starts with   *)
(* pairwise different bytes (Garbage) and every source byte handed to      *)
(* Producer::write is numbered: any loss, duplication or reordering shows. *)
(***************************************************************************)
EXTENDS Integers, Sequences, FiniteSets, TLC

\* Largest data area modelled (data_len ranges over 1..MaxDataLen).
MaxDataLen == 3
\* Longest source slice of one Producer::write call.
MaxK == 3
\* Total number of source bytes offered to Producer::write in one behaviour.
MaxOffered == 4

\* ring_buffer.rs:83, little-endian bytes of 0xb528_c25f_90c6_16af_cbc1_502c_09c1_fd6e
MAGIC == <<110, 253, 193, 9, 44, 80, 193, 203, 175, 22, 198, 144, 95, 194, 40, 181>>
\* ring_buffer.rs:85, the magic of the other (ecc-64bit) layout
MAGIC_ECC == <<108, 60, 205, 105, 19, 16, 148, 161, 180, 242, 185, 39, 96, 32, 255, 29>>
\* RAM that was never written by this crate
ZeroHeader == [i \in 1..16 |-> 0]

\* corrupt.rs:103-106, `corrupted[0] = 0`
CorruptHeader(h) == [h EXCEPT ![1] = 0]

\* The header values a region is started with.
HeaderVals == {MAGIC, CorruptHeader(MAGIC), [MAGIC EXCEPT ![16] = 0], MAGIC_ECC, ZeroHeader}

\* ring_buffer.rs:527, release_all passes usize::MAX.  The value is only ever
\* compared (used.min(..)), so the largest integer TLC represents stands for it.
USIZE_MAX == 2147483647

\* Largest data area of the boots that log during init (SpecInit).
InitDataLen == 2
\* Total number of source bytes the logger is handed in one behaviour of SpecInit.
InitOffered == 2
\* Number of init calls in one boot.
MaxCalls == 2

\* lib.rs:104, i32::MAX
I32_MAX == 2147483647
\* lib.rs:97, align_of::<RingBuffer>(): the alignment of u128 on the 32-bit Arm
\* targets of the crate
AlignOfRingBuffer == 8
\* lib.rs:100, size_of::<RingBuffer>() of the layout with an identifier:
\* header 16 | identifier 16 | read 4 | write 4
SizeOfRingBuffer == 40

\* identifier_test.rs:15-19
PHASE1_ID == <<1, 2, 3, 4, 5, 6, 7, 8, 9, 10, 11, 12, 13, 14, 15, 16>>
PHASE2_ID == <<17, 18, 19, 20, 21, 22, 23, 24, 25, 26, 26, 27, 28, 29, 30, 31>>
ZEROED_ID == [i \in 1..16 |-> 0]
\* An identifier slot that was never written by this crate.
GarbageId == [i \in 1..16 |-> 255 - i]

\* The closures handed to init: identifier_test.rs:23-29 and panic_test.rs:20.
Closures == {"phase", "keep"}

\* lib.rs:125, f(&old_identifier)
Closure(f, old) ==
    IF f = "phase"
    THEN (IF old = ZEROED_ID THEN PHASE1_ID ELSE PHASE2_ID)
    ELSE old

VARIABLES
    data_len,   \* buf.len() = memory.len() - size_of::<RingBuffer>()
    header,     \* RingBuffer.header
    read,       \* RingBuffer.read
    write,      \* RingBuffer.write
    data,       \* the data area, 0..data_len-1
    rpc,        \* position inside recover_or_reinitialize
    r_read,     \* recover_or_reinitialize: local `read`
    r_write,    \* recover_or_reinitialize: local `write`
    r_fresh,    \* recover_or_reinitialize: the header test took the `!= MAGIC` branch
    r_hw,       \* recover_or_reinitialize: words of the header already stored
    ppc,        \* position inside Producer::write
    p_src,      \* Producer::write: `data` argument
    p_read,     \* Producer::write: local `read`
    p_write,    \* Producer::write: local `write`
    p_len,      \* Producer::write: local `len`
    p_i,        \* bytes copied so far by copy_nonoverlapping
    cpc,        \* position of the consumer
    c_write,    \* Consumer::is_empty / Consumer::read: local `write`
    c_empty,    \* last result of Consumer::is_empty
    g_read,     \* GrantR.original_read
    g_len1,     \* GrantR.slice1.len()
    g_len2,     \* GrantR.slice2.len()
    offered,    \* history: number of source bytes handed to Producer::write
    accepted,   \* history: bytes published by Producer::write (after the bytes the
                \*          region held when it was first powered with a valid header)
    released,   \* history: bytes the consumer released, in release order
    mem_start,  \* init: memory.start, the address of __defmt_persist_start
    mem_len,    \* init: memory.len()
    identifier, \* RingBuffer.identifier, the 16-byte tag of the region
    INITIALIZED,        \* init: static INITIALIZED
    initialized,        \* LOGGER_STATE.initialized
    ipc,                \* position inside the init call that passed the swap
    i_f,                \* init: the closure `f`
    old_identifier,     \* init: local `old_identifier`
    recovered_logs_len, \* init: local `recovered_logs_len`
    i_res,      \* results of the init calls of this boot, in call order
    b_acc,      \* history: Len(accepted) when this boot started
    b_rel,      \* history: Len(released) when this boot started
    depth,      \* LOGGER_STATE.depth
    cs_state,   \* LOGGER_STATE.cs_state, the saved RestoreState
    masked,     \* the interrupt mask of the core (PRIMASK)
    stk,        \* the contexts inside a log statement, the running one last
    trace,      \* history: the calls the logger made, <<frame, call, value>>
    frames,     \* history: number of log statements started
    waker,      \* WAKER.waker: NoWaker or the registration it holds
    regs,       \* history: number of AtomicWaker::register calls
    taken,      \* wakers AtomicWaker::wake took and has not woken yet
    woken,      \* history: the registrations Waker::wake was called on, in order
    owed,       \* Logger::release calls that are about to call WAKER.wake()
    fpc,        \* the log statement appending to the ring
    wpc,        \* position inside a poll of wait_for_data
    w_id,       \* the registration made by the latest poll
    w_res,      \* result of the latest poll
    w_rel,      \* history: Len(released) when the latest poll returned
    exec,       \* block_on(join(writer_task, reader_task)): the positions of the tasks
    ecc,        \* the build has the `ecc-64bit` feature
    pad_read,   \* RingBuffer._pad_read (ecc-64bit layout)
    pad_write,  \* RingBuffer._pad_write (ecc-64bit layout)
    cache,      \* the ECC write cache: the word not committed yet, or NoCache
    first       \* history: the region as the first of two recoveries left it

region == <<data_len, header, read, write, data>>
recovery == <<rpc, r_read, r_write, r_fresh, r_hw>>
producer == <<ppc, p_src, p_read, p_write, p_len, p_i>>
consumer == <<cpc, c_write, c_empty, g_read, g_len1, g_len2>>
history == <<offered, accepted, released>>
boot == <<mem_start, mem_len, identifier, INITIALIZED, initialized, ipc, i_f,
          old_identifier, recovered_logs_len, i_res, b_acc, b_rel>>
logger == <<depth, cs_state, masked, stk, trace, frames>>
waiter == <<waker, regs, taken, woken, owed, fpc, wpc, w_id, w_res, w_rel>>
padding == <<ecc, pad_read, pad_write>>
extra == <<cache, first>>
aux == <<logger, waiter, exec, padding, extra>>
vars == <<region, recovery, producer, consumer, history, boot, aux>>

Min(a, b) == IF a < b THEN a ELSE b

\* The byte the region holds at data index i before anything was written.
Garbage(i) == 255 - i

\* buf[start .. start+len] as a sequence
Slice(start, len) == [i \in 1..len |-> data[start + i - 1]]

\* A read that forgets the part of the readable bytes before the write index
\* when they wrap.
ReadLens_NoSecond(r, w) == IF w < r THEN <<data_len - r, 0>> ELSE <<w - r, 0>>

\* Consumer::read, ring_buffer.rs:393-397: (len1, len2)
ReadLens(r, w) == IF w < r THEN <<data_len - r, w>> ELSE <<w - r, 0>>

\* GrantR::bufs, ring_buffer.rs:423,448: slice1 = buf[read..read+len1], slice2 = buf[0..len2]
Bufs(r, len1, len2) == <<Slice(r, len1), Slice(0, len2)>>

\* What a Consumer::read taken in the current state returns, as one sequence.
ReadAll ==
    LET l == ReadLens(read, write)
        b == Bufs(read, l[1], l[2])
    IN  b[1] \o b[2]

\* The bytes of the live grant, as one sequence.
GrantBytes ==
    LET b == Bufs(g_read, g_len1, g_len2) IN b[1] \o b[2]

\* A free-space computation with the two indices exchanged.
available_Swapped(r, w) ==
    IF w > r THEN w - r - 1 ELSE data_len - r - 1 + w

\* A free-space computation that forgets the bytes still unread.
available_Capacity(r, w) == data_len - 1

\* A free-space computation that forgets the slot kept empty.
available_NoGap(r, w) ==
    IF r > w THEN r - w ELSE data_len - w + r

\* Producer::available, ring_buffer.rs:263-269
available(r, w) ==
    IF r > w THEN r - w - 1 ELSE data_len - w - 1 + r

\* ring_buffer.rs:162 / 188-189
InRange(i) == i < data_len
ValidRegion == header = MAGIC /\ InRange(read) /\ InRange(write)

\* The logger before the first log statement: logger.rs:65-71 (static LOGGER_STATE).
LoggerIdle ==
    /\ depth = 0 /\ cs_state = "invalid" /\ masked = FALSE
    /\ stk = <<>> /\ trace = <<>> /\ frames = 0

\* atomic_waker.rs:20, `None`
NoWaker == 0

\* No waker registered, nobody polling: atomic_waker.rs:18-22 (AtomicWaker::new).
WaiterIdle ==
    /\ waker = NoWaker /\ regs = 0 /\ taken = {} /\ woken = <<>> /\ owed = 0
    /\ fpc = "idle" /\ wpc = "idle" /\ w_id = 0 /\ w_res = "none" /\ w_rel = 0

\* async_test.rs:128, the futures before their first poll
ExecIdle ==
    exec = [turn |-> "a", a_pc |-> "start", a_logged |-> 0, a_off |-> 0,
            b_pc |-> "wait", b_polls |-> 0, b_iter |-> 0]

\* No partial word waits in the ECC write cache.
NoCache == [w |-> <<"none", 0>>, parts |-> {}, old |-> <<>>]

\* ring_buffer.rs:16-17, the 64-bit ECC word of data byte i (the data area
\* starts and ends 8-byte aligned, ring_buffer.rs:124-125)
DataWord(i) == <<"data", i \div 8>>

\* ring_buffer.rs:36-51, the ECC words of the indices: the index (part 0) and
\* its padding slot (part 1)
ReadWord == <<"read", 0>>
WriteWord == <<"write", 0>>

\* The parts of an ECC word: the eight bytes of a data word, the two u32 of an
\* index word.
AllParts(w) == IF w[1] = "data" THEN 0..7 ELSE {0, 1}

\* ring_buffer.rs:34, the ECC word of the 32-bit word wd (1..4) of the u128
\* header: two 64-bit words of two parts each
HeaderWord(wd) == <<"header", (wd - 1) \div 2>>

\* The content of ECC word w.
WordValue(w) ==
    IF w[1] = "data" THEN [k \in 1..8 |-> data[8 * w[2] + k - 1]]
    ELSE IF w[1] = "header" THEN [k \in 1..8 |-> header[8 * w[2] + k]]
    ELSE IF w[1] = "read" THEN <<read, pad_read>>
    ELSE <<write, pad_write>>

\* ring_buffer.rs:16-17, 24-27: the write cache after a store to the parts ps
\* of word w.  A word commits when it is written in full, or when a store goes
\* to another word; a partial word waits in the cache, which remembers what
\* the memory still holds.  The default layout has no ECC and no cache.
Stored(w, ps) ==
    IF ~ecc THEN NoCache
    ELSE LET have == IF cache.w = w THEN cache.parts \cup ps ELSE ps
         IN  IF have = AllParts(w) THEN NoCache
             ELSE [w |-> w, parts |-> have,
                   old |-> IF cache.w = w THEN cache.old ELSE WordValue(w)]

\* No recovery has been run a second time.
NotRerun == <<>>

\* The default build: no padding slots, every store is committed at once.
PlainLayout ==
    /\ ecc = FALSE /\ pad_read = 0 /\ pad_write = 0
    /\ cache = NoCache /\ first = NotRerun

AuxIdle == LoggerIdle /\ WaiterIdle /\ ExecIdle /\ PlainLayout

Init ==
    /\ data_len \in 1..MaxDataLen
    /\ header \in HeaderVals
    /\ read \in 0..(data_len + 1)
    /\ write \in 0..(data_len + 1)
    /\ data = [i \in 0..(data_len - 1) |-> Garbage(i)]
    /\ rpc = "check" /\ r_read = 0 /\ r_write = 0 /\ r_fresh = FALSE /\ r_hw = {}
    /\ ppc = "idle" /\ p_src = <<>> /\ p_read = 0 /\ p_write = 0 /\ p_len = 0 /\ p_i = 0
    /\ cpc = "idle" /\ c_write = 0 /\ c_empty = FALSE
    /\ g_read = 0 /\ g_len1 = 0 /\ g_len2 = 0
    /\ offered = 0
    /\ accepted = IF ValidRegion THEN ReadAll ELSE <<>>
    /\ released = <<>>
    /\ mem_start = 0 /\ mem_len = SizeOfRingBuffer + data_len
    /\ identifier = ZEROED_ID
    /\ INITIALIZED = FALSE /\ initialized = FALSE
    /\ ipc = "none" /\ i_f = "keep" /\ old_identifier = ZEROED_ID
    /\ recovered_logs_len = 0 /\ i_res = <<>>
    /\ b_acc = 0 /\ b_rel = 0
    /\ AuxIdle

(***************************************************************************)
(* RingBuffer::recover_or_reinitialize, ring_buffer.rs:141-235             *)
(***************************************************************************)
\* A header test that looks at the low 64 bits only.
IsFresh_Low64 == SubSeq(header, 1, 8) # SubSeq(MAGIC, 1, 8)

\* A header test that never trusts the region.
IsFresh_Always == TRUE

\* :82-85  MAGIC, one value per layout
BuildMagic == IF ecc THEN MAGIC_ECC ELSE MAGIC

\* :162  header.read_volatile() != MAGIC
IsFresh == header # BuildMagic

\* :162  if header.read_volatile() != MAGIC
RecoverCheck ==
    /\ rpc = "check"
    /\ r_fresh' = IsFresh
    /\ rpc' = IF IsFresh THEN "fresh_read" ELSE "repair_load"
    /\ UNCHANGED <<region, r_read, r_write, r_hw, producer, consumer, history, boot, aux>>

\* :163  v.read.store(0); the ecc-64bit build stores the padding slot next
FreshRead ==
    /\ rpc = "fresh_read"
    /\ read' = 0
    /\ rpc' = IF ecc THEN "fresh_read_pad" ELSE "fresh_write"
    /\ cache' = Stored(ReadWord, {0})
    /\ UNCHANGED <<data_len, header, write, data, r_read, r_write, r_fresh, r_hw,
                   producer, consumer, history, boot, logger, waiter, exec, padding, first>>

\* :164-168  ecc-64bit: _pad_read.write_volatile(0)
FreshReadPad ==
    /\ rpc = "fresh_read_pad"
    /\ pad_read' = 0
    /\ rpc' = "fresh_write"
    /\ cache' = Stored(ReadWord, {1})
    /\ UNCHANGED <<region, r_read, r_write, r_fresh, r_hw, producer, consumer, history,
                   boot, logger, waiter, exec, ecc, pad_write, first>>

\* A fresh path that leaves the write index at the end of the data area.
FreshWriteValue_DataLen == data_len

\* :170  the value of v.write.store(0)
FreshWriteValue == 0

\* :170  v.write.store(0)
FreshWrite ==
    /\ rpc = "fresh_write"
    /\ write' = FreshWriteValue
    /\ rpc' = IF ecc THEN "fresh_write_pad" ELSE "fresh_magic"
    /\ cache' = Stored(WriteWord, {0})
    /\ UNCHANGED <<data_len, header, read, data, r_read, r_write, r_fresh, r_hw,
                   producer, consumer, history, boot, logger, waiter, exec, padding, first>>

\* :171-175  ecc-64bit: _pad_write.write_volatile(0)
FreshWritePad ==
    /\ rpc = "fresh_write_pad"
    /\ pad_write' = 0
    /\ rpc' = "fresh_magic"
    /\ cache' = Stored(WriteWord, {1})
    /\ UNCHANGED <<region, r_read, r_write, r_fresh, r_hw, producer, consumer, history,
                   boot, logger, waiter, exec, ecc, pad_read, first>>

\* The header with its 32-bit word wd (1..4) overwritten by that word of MAGIC.
StoreMagicWord(h, wd) ==
    [i \in 1..16 |-> IF (i - 1) \div 4 + 1 = wd THEN BuildMagic[i] ELSE h[i]]

\* :177-182  fence; header.write_volatile(MAGIC).  A u128 is stored as four 32-bit
\* words on the 32-bit targets of this crate, in an order the compiler chooses:
\* one word per step.
FreshMagic(wd) ==
    /\ rpc = "fresh_magic"
    /\ wd \notin r_hw
    /\ header' = StoreMagicWord(header, wd)
    /\ r_hw' = IF r_hw \cup {wd} = 1..4 THEN {} ELSE r_hw \cup {wd}
    /\ rpc' = IF r_hw \cup {wd} = 1..4 THEN "split" ELSE "fresh_magic"
    /\ cache' = Stored(HeaderWord(wd), {(wd - 1) % 2})
    /\ UNCHANGED <<data_len, read, write, data, r_read, r_write, r_fresh,
                   producer, consumer, history, boot, logger, waiter, exec, padding, first>>

\* :186-189  load write, load read
RepairLoad ==
    /\ rpc = "repair_load"
    /\ r_write' = write
    /\ r_read' = read
    /\ rpc' = "repair_fix"
    /\ UNCHANGED <<region, r_fresh, r_hw, producer, consumer, history, boot, aux>>

\* A repair that snaps the out-of-range write index to the last slot.
RepairWriteValue_Last == data_len - 1

\* :197  (true, false) => v.write.store(read as u32)
RepairWriteValue == r_read

\* A repair that snaps the out-of-range read index to the last slot.
RepairReadValue_Last == data_len - 1

\* :198  (false, true) => v.read.store(write as u32)
RepairReadValue == r_write

\* A repair that snaps the write index to the last slot.
BothOutWrite_Last == data_len - 1

\* :200  (false, false) => v.read.store(0)
BothOutRead == 0

\* :202  (false, false) => v.write.store(0)
BothOutWrite == 0

\* A range test that refuses the last slot.
IndexOk_NotLast(i) == i < data_len - 1

\* :188-189  read_ok, write_ok
IndexOk(i) == i < data_len

\* :205  after the match: the two padding stores of the ecc-64bit build
AfterRepair == IF ecc THEN "repair_pad_read" ELSE "split"

\* :195-200  match (read_ok, write_ok), first store of the arm
RepairFix ==
    /\ rpc = "repair_fix"
    /\ LET read_ok == IndexOk(r_read)
           write_ok == IndexOk(r_write)
       IN  CASE read_ok /\ write_ok ->
                    /\ rpc' = AfterRepair
                    /\ UNCHANGED <<read, write, cache>>
             [] read_ok /\ ~write_ok ->
                    /\ write' = RepairWriteValue
                    /\ rpc' = AfterRepair
                    /\ cache' = Stored(WriteWord, {0})
                    /\ UNCHANGED read
             [] ~read_ok /\ write_ok ->
                    /\ read' = RepairReadValue
                    /\ rpc' = AfterRepair
                    /\ cache' = Stored(ReadWord, {0})
                    /\ UNCHANGED write
             [] ~read_ok /\ ~write_ok ->
                    /\ read' = BothOutRead
                    /\ rpc' = "repair_fix2"
                    /\ cache' = Stored(ReadWord, {0})
                    /\ UNCHANGED write
    /\ UNCHANGED <<data_len, header, data, r_read, r_write, r_fresh, r_hw,
                   producer, consumer, history, boot, logger, waiter, exec, padding, first>>

\* :202  v.write.store(0) of the (false, false) arm
RepairFix2 ==
    /\ rpc = "repair_fix2"
    /\ write' = BothOutWrite
    /\ rpc' = AfterRepair
    /\ cache' = Stored(WriteWord, {0})
    /\ UNCHANGED <<data_len, header, read, data, r_read, r_write, r_fresh, r_hw,
                   producer, consumer, history, boot, logger, waiter, exec, padding, first>>

\* :205-209  ecc-64bit: _pad_read.write_volatile(0)
RepairPadRead ==
    /\ rpc = "repair_pad_read"
    /\ pad_read' = 0
    /\ rpc' = "repair_pad_write"
    /\ cache' = Stored(ReadWord, {1})
    /\ UNCHANGED <<region, r_read, r_write, r_fresh, r_hw, producer, consumer, history,
                   boot, logger, waiter, exec, ecc, pad_write, first>>

\* :210-214  ecc-64bit: _pad_write.write_volatile(0)
RepairPadWrite ==
    /\ rpc = "repair_pad_write"
    /\ pad_write' = 0
    /\ rpc' = "split"
    /\ cache' = Stored(WriteWord, {1})
    /\ UNCHANGED <<region, r_read, r_write, r_fresh, r_hw, producer, consumer, history,
                   boot, logger, waiter, exec, ecc, pad_read, first>>

\* :216-234  fence; split: the Producer and the Consumer exist from here on
Split ==
    /\ rpc = "split"
    /\ rpc' = "done"
    /\ r_read' = 0 /\ r_write' = 0 /\ r_fresh' = FALSE
    /\ UNCHANGED <<region, r_hw, producer, consumer, history, boot, aux>>

(***************************************************************************)
(* Producer::write, ring_buffer.rs:275-364                                 *)
(***************************************************************************)
\* The source bytes of a call of k bytes: numbered from the bytes offered so far.
Source(k) == [i \in 1..k |-> offered + i]

\* :277  call with `data` of k bytes; load read
WriteLoadRead(k) ==
    /\ rpc = "done"
    /\ ppc \in {"idle", "ret"}
    /\ offered + k <= MaxOffered
    /\ p_src' = Source(k)
    /\ offered' = offered + k
    /\ p_read' = read
    /\ p_write' = 0 /\ p_len' = 0 /\ p_i' = 0
    /\ ppc' = "load_write"
    /\ UNCHANGED <<region, recovery, consumer, accepted, released, boot, aux>>

\* A length clamped one byte past the free space.
WriteLen_OnePast(k, r, w) == Min(k, available(r, w) + 1)

\* A length that is not clamped to the free space.
WriteLen_NoClamp(k, r, w) == k

\* :281  len = data.len().min(self.available(read, write))
WriteLen(k, r, w) == Min(k, available(r, w))

\* An ecc-64bit build that stores the index without the flush of the last block.
AfterCopy_NoFlush == "store"

\* An append that never returns early.
ReturnsEarly_Never(len) == FALSE

\* :282  if len == 0
ReturnsEarly(len) == len = 0

\* :340  after the copy: the flush of the ecc-64bit build, else the index store
AfterCopy == IF ecc THEN "flush" ELSE "store"

\* :359  after the index store: the padding store of the ecc-64bit build
AfterStore == IF ecc THEN "pad" ELSE "ret"

\* :279-284  load write; len = data.len().min(available); if len == 0 return
WriteLoadWrite ==
    /\ ppc = "load_write"
    /\ p_write' = write
    /\ p_len' = WriteLen(Len(p_src), p_read, write)
    /\ ppc' = IF ReturnsEarly(p_len') THEN "ret"
              ELSE IF p_len' = 0 THEN AfterCopy ELSE "copy"
    /\ UNCHANGED <<region, recovery, p_src, p_read, p_i, consumer, history, boot, aux>>

\* A copy whose second part starts one byte too far.
CopyDst_SecondPartShifted(i) ==
    IF p_write + p_len > data_len
    THEN LET pivot == data_len - p_write
         IN  IF i < pivot THEN p_write + i ELSE i - pivot + 1
    ELSE p_write + i

\* :305-336  destination of source byte number i (0-based) of the copy
CopyDst(i) ==
    IF p_write + p_len > data_len
    THEN LET pivot == data_len - p_write
         IN  IF i < pivot THEN p_write + i ELSE i - pivot
    ELSE p_write + i

\* :317,326,335  copy_nonoverlapping, one byte per step
WriteCopy ==
    /\ ppc = "copy"
    /\ data' = [data EXCEPT ![CopyDst(p_i)] = p_src[p_i + 1]]
    /\ p_i' = p_i + 1
    /\ ppc' = IF p_i + 1 = p_len THEN AfterCopy ELSE "copy"
    /\ cache' = Stored(DataWord(CopyDst(p_i)), {CopyDst(p_i) % 8})
    /\ UNCHANGED <<data_len, header, read, write, recovery, p_src, p_read, p_write,
                   p_len, consumer, history, boot, logger, waiter, exec, padding, first>>

\* An index one past the last byte copied.
NewWrite_OneMore == (p_write + p_len + 1) % data_len

\* An index that is not wrapped at the end of the data area.
NewWrite_NoWrap == p_write + p_len

\* :338  new_write
NewWrite == (p_write + p_len) % data_len

\* :358  header.write.store(new_write, Release)
WriteStore ==
    /\ ppc = "store"
    /\ write' = NewWrite
    /\ accepted' = accepted \o SubSeq(p_src, 1, p_len)
    /\ ppc' = AfterStore
    /\ cache' = Stored(WriteWord, {0})
    /\ UNCHANGED <<data_len, header, read, data, recovery, p_src, p_read, p_write,
                   p_len, p_i, consumer, offered, released, boot, logger, waiter, exec,
                   padding, first>>

\* :351  the 8-byte block holding the last byte written
FlushBlock ==
    LET last == (NewWrite + data_len - 1) % data_len
        last_byte_pos == last - (last % 8)
    IN  last_byte_pos..(last_byte_pos + 7)

\* :340-356  ecc-64bit: read the block and write the same value back
WriteFlush ==
    /\ ppc = "flush"
    /\ data' = [i \in DOMAIN data |-> IF i \in FlushBlock THEN data[i] ELSE data[i]]
    /\ ppc' = "store"
    /\ cache' = Stored(DataWord((NewWrite + data_len - 1) % data_len), 0..7)
    /\ UNCHANGED <<data_len, header, read, write, recovery, p_src, p_read, p_write,
                   p_len, p_i, consumer, history, boot, logger, waiter, exec, padding,
                   first>>

\* :359-363  ecc-64bit: _pad_write.write_volatile(0)
WritePad ==
    /\ ppc = "pad"
    /\ pad_write' = 0
    /\ ppc' = "ret"
    /\ cache' = Stored(WriteWord, {1})
    /\ UNCHANGED <<region, recovery, p_src, p_read, p_write, p_len, p_i, consumer,
                   history, boot, logger, waiter, exec, ecc, pad_read, first>>

(***************************************************************************)
(* Consumer, ring_buffer.rs:367-455, and GrantR, ring_buffer.rs:496-535    *)
(***************************************************************************)
\* :372  is_empty: load write (Acquire)
IsEmptyLoadWrite ==
    /\ rpc = "done"
    /\ cpc = "idle"
    /\ c_write' = write
    /\ cpc' = "empty_read"
    /\ UNCHANGED <<region, recovery, producer, c_empty, g_read, g_len1, g_len2, history, boot, aux>>

\* An emptiness test that looks at the slot before the write index.
IsEmptyResult_OffByOne(w, r) == w = (r + 1) % data_len

\* :376  write == read
IsEmptyResult(w, r) == w = r

\* :374-376  is_empty: load read; write == read
IsEmptyLoadRead ==
    /\ cpc = "empty_read"
    /\ c_empty' = IsEmptyResult(c_write, read)
    /\ cpc' = "idle"
    /\ UNCHANGED <<region, recovery, producer, c_write, g_read, g_len1, g_len2, history, boot, aux>>

\* :388  read: load write (Acquire)
ReadLoadWrite ==
    /\ rpc = "done"
    /\ cpc = "idle"
    /\ c_write' = write
    /\ cpc' = "read_read"
    /\ UNCHANGED <<region, recovery, producer, c_empty, g_read, g_len1, g_len2, history, boot, aux>>

\* :390-454  read: load read; build the two slices and the grant
ReadLoadRead ==
    /\ cpc = "read_read"
    /\ LET l == ReadLens(read, c_write)
       IN  /\ g_read' = read
           /\ g_len1' = l[1]
           /\ g_len2' = l[2]
    /\ cpc' = "granted"
    /\ UNCHANGED <<region, recovery, producer, c_write, c_empty, history, boot, aux>>

\* A release bounded by the write index of the moment, not by the grant.
Used_ToWrite(used) == Min(used, (write - g_read) % data_len)

\* :502  used.min(slice1.len() + slice2.len())
Used(used) == Min(used, g_len1 + g_len2)

\* A release that does not wrap the read index.
NewRead_NoWrap(used) == g_read + Used(used)

\* A release that stores the read index of the grant back.
NewRead_NoAdvance(used) == g_read

\* A release that crosses the end of the data area and lands on index 0.
NewRead_WrapToZero(used) ==
    IF g_read + Used(used) < data_len THEN g_read + Used(used) ELSE 0

\* A release that ignores `used` and gives the whole grant back.
NewRead_ToGrantEnd(used) == (g_read + g_len1 + g_len2) % data_len

\* :506-510  new_read
NewRead(used) ==
    IF g_read + Used(used) < data_len
    THEN g_read + Used(used)
    ELSE Used(used) - g_len1

\* :515  after the index store: the padding store of the ecc-64bit build
AfterRelease == IF ecc THEN "pad" ELSE "idle"

\* :501-520  GrantR::release(used)
Release(used) ==
    /\ cpc = "granted"
    /\ read' = NewRead(used)
    /\ released' = released \o SubSeq(GrantBytes, 1, Used(used))
    /\ cpc' = AfterRelease
    /\ g_read' = 0 /\ g_len1' = 0 /\ g_len2' = 0
    /\ cache' = Stored(ReadWord, {0})
    /\ UNCHANGED <<data_len, header, write, data, recovery, producer, c_write, c_empty,
                   offered, accepted, boot, logger, waiter, exec, padding, first>>

\* :526-528  GrantR::release_all
ReleaseAll == Release(USIZE_MAX)

\* :515-518  ecc-64bit: _pad_read.write_volatile(0)
ReleasePad ==
    /\ cpc = "pad"
    /\ pad_read' = 0
    /\ cpc' = "idle"
    /\ cache' = Stored(ReadWord, {1})
    /\ UNCHANGED <<region, recovery, producer, c_write, c_empty, g_read, g_len1, g_len2,
                   history, boot, logger, waiter, exec, ecc, pad_write, first>>

\* drop of a GrantR that was not released
DropGrant ==
    /\ cpc = "granted"
    /\ cpc' = "idle"
    /\ g_read' = 0 /\ g_len1' = 0 /\ g_len2' = 0
    /\ UNCHANGED <<region, recovery, producer, c_write, c_empty, history, boot, aux>>

(***************************************************************************)
(* A reset (panic, watchdog, power glitch): RAM keeps the region, every    *)
(* local and every handle is gone, and the next boot starts recovery.      *)
(***************************************************************************)
ClearLocals ==
    /\ rpc' = "check" /\ r_read' = 0 /\ r_write' = 0 /\ r_fresh' = FALSE /\ r_hw' = {}
    /\ ppc' = "idle" /\ p_src' = <<>> /\ p_read' = 0 /\ p_write' = 0 /\ p_len' = 0 /\ p_i' = 0
    /\ cpc' = "idle" /\ c_write' = 0 /\ c_empty' = FALSE
    /\ g_read' = 0 /\ g_len1' = 0 /\ g_len2' = 0

Reset ==
    /\ ClearLocals
    /\ UNCHANGED <<region, history, boot, aux>>

Next ==
    \/ RecoverCheck
    \/ FreshRead
    \/ FreshWrite
    \/ \E wd \in 1..4 : FreshMagic(wd)
    \/ RepairLoad
    \/ RepairFix
    \/ RepairFix2
    \/ Split
    \/ \E k \in 0..MaxK : WriteLoadRead(k)
    \/ WriteLoadWrite
    \/ WriteCopy
    \/ WriteStore
    \/ IsEmptyLoadWrite
    \/ IsEmptyLoadRead
    \/ ReadLoadWrite
    \/ ReadLoadRead
    \/ \E used \in 0..(data_len + 1) : Release(used)
    \/ ReleaseAll
    \/ DropGrant
    \/ Reset

Spec == Init /\ [][Next]_vars

(***************************************************************************)
(* init, lib.rs:78-135, and LoggerState, logger.rs:36-56.                  *)
(*                                                                         *)
(* One step per statement of init that reads or writes shared state.  The  *)
(* logger is called from interrupts that preempt init, so a log call can   *)
(* run between any two steps of init; an interrupt handler returns before  *)
(* the code it interrupted goes on.  The identifier slot is a field of the *)
(* region that recover_or_reinitialize does not write.                     *)
(***************************************************************************)
ring == <<region, recovery, producer, consumer, history>>
geometry == <<mem_start, mem_len>>

\* What the init call in the body returns: its entry of i_res.
Return(r) == [i \in DOMAIN i_res |-> IF i_res[i] = "running" THEN r ELSE i_res[i]]

\* A once flag that only counts an init that returned Ok.
AlreadyInitialized_OnlyAfterOk == INITIALIZED /\ \E i \in DOMAIN i_res : i_res[i] = "Ok"

\* lib.rs:89, the value INITIALIZED.swap(true, SeqCst) returns
AlreadyInitialized == INITIALIZED

\* lib.rs:87-91  a call of init with closure f; one call is in the body at a time
InitCall(f) ==
    /\ Len(i_res) < MaxCalls
    /\ AlreadyInitialized \/ ipc \in {"none", "err", "ok"}
    /\ INITIALIZED' = TRUE
    /\ IF AlreadyInitialized
       THEN /\ i_res' = Append(i_res, "AlreadyInitialized")
            /\ UNCHANGED <<ipc, i_f>>
       ELSE /\ i_res' = Append(i_res, "running")
            /\ ipc' = "align"
            /\ i_f' = f
    /\ UNCHANGED <<ring, geometry, identifier, initialized, old_identifier,
                   recovered_logs_len, b_acc, b_rel, aux>>

\* The call of init a boot makes first; calls that follow it are part of
\* SpecGeometry.
FirstInitCall(f) ==
    /\ i_res = <<>>
    /\ InitCall(f)

\* lib.rs:97-99  if !memory.start.is_multiple_of(align_of::<RingBuffer>())
InitAlign ==
    /\ ipc = "align"
    /\ IF mem_start % AlignOfRingBuffer # 0
       THEN ipc' = "err" /\ i_res' = Return("BadAlignment")
       ELSE ipc' = "small" /\ UNCHANGED i_res
    /\ UNCHANGED <<ring, geometry, identifier, INITIALIZED, initialized, i_f,
                   old_identifier, recovered_logs_len, b_acc, b_rel, aux>>

\* A size test that lets a region of exactly the header size through.
IsTooSmall_Strict == mem_len < SizeOfRingBuffer

\* lib.rs:100  memory.len() <= size_of::<RingBuffer>()
IsTooSmall == mem_len <= SizeOfRingBuffer

\* lib.rs:100-102
InitSmall ==
    /\ ipc = "small"
    /\ IF IsTooSmall
       THEN ipc' = "err" /\ i_res' = Return("TooSmall")
       ELSE ipc' = "large" /\ UNCHANGED i_res
    /\ UNCHANGED <<ring, geometry, identifier, INITIALIZED, initialized, i_f,
                   old_identifier, recovered_logs_len, b_acc, b_rel, aux>>

\* A limit of half of i32::MAX.
TooLargeLimit_Half == I32_MAX \div 2

\* lib.rs:104  i32::MAX as usize / 4
TooLargeLimit == I32_MAX \div 4

\* lib.rs:103-106  buf_len = memory.len() - size_of::<RingBuffer>(); buf_len >= limit
InitLarge ==
    /\ ipc = "large"
    /\ IF mem_len - SizeOfRingBuffer >= TooLargeLimit
       THEN ipc' = "err" /\ i_res' = Return("TooLarge")
       ELSE ipc' = "recover" /\ UNCHANGED i_res
    /\ UNCHANGED <<ring, geometry, identifier, INITIALIZED, initialized, i_f,
                   old_identifier, recovered_logs_len, b_acc, b_rel, aux>>

\* lib.rs:112  RingBuffer::recover_or_reinitialize(memory)
InitRecover ==
    /\ ipc = "recover"
    /\ \/ RecoverCheck
       \/ FreshRead
       \/ FreshWrite
       \/ \E wd \in 1..4 : FreshMagic(wd)
       \/ RepairLoad
       \/ RepairFix
       \/ RepairFix2
       \/ Split

\* lib.rs:115, logger.rs:36-42  LOGGER_STATE.initialize(p): initialized.store(true)
InitLogger ==
    /\ ipc = "recover"
    /\ rpc = "done"
    /\ initialized' = TRUE
    /\ ipc' = "grant"
    /\ UNCHANGED <<ring, geometry, identifier, INITIALIZED, i_f, old_identifier,
                   recovered_logs_len, i_res, b_acc, b_rel, aux>>

\* No interrupt handler is inside Producer::write: the interrupted code can go on.
NoInterrupt == ppc \in {"idle", "ret"}

\* lib.rs:118  let grant = c.read(): the two loads of Consumer::read
InitGrant ==
    /\ ipc = "grant"
    /\ NoInterrupt
    /\ ReadLoadWrite \/ ReadLoadRead

\* A grant that is released when it goes out of scope.
ReadAfterInitGrant_Released == (g_read + g_len1 + g_len2) % data_len

\* lib.rs:117-121  the grant goes out of scope unreleased (GrantR has no Drop)
ReadAfterInitGrant == read

\* lib.rs:119-121  buf1.len() + buf2.len(); the grant is dropped
InitLen ==
    /\ ipc = "grant"
    /\ NoInterrupt
    /\ cpc = "granted"
    /\ recovered_logs_len' = g_len1 + g_len2
    /\ read' = ReadAfterInitGrant
    /\ cpc' = "idle"
    /\ g_read' = 0 /\ g_len1' = 0 /\ g_len2' = 0
    /\ ipc' = "id_read"
    /\ UNCHANGED <<data_len, header, write, data, recovery, producer, c_write, c_empty,
                   history, geometry, identifier, INITIALIZED, initialized, i_f,
                   old_identifier, i_res, b_acc, b_rel, aux>>

\* lib.rs:124  old_identifier = identifier.read_volatile()
InitIdRead ==
    /\ ipc = "id_read"
    /\ NoInterrupt
    /\ old_identifier' = identifier
    /\ ipc' = "id_write"
    /\ UNCHANGED <<ring, geometry, identifier, INITIALIZED, initialized, i_f,
                   recovered_logs_len, i_res, b_acc, b_rel, aux>>

\* An init that writes the identifier it read back.
NewIdentifier_Old == old_identifier

\* lib.rs:125  new_identifier = f(&old_identifier)
NewIdentifier == Closure(i_f, old_identifier)

\* lib.rs:125-134  identifier.write_volatile(new_identifier); flush_ecc (nothing in
\* the plain layout); Ok(ConsumerAndMetadata {..})
InitIdWrite ==
    /\ ipc = "id_write"
    /\ NoInterrupt
    /\ identifier' = NewIdentifier
    /\ ipc' = "ok"
    /\ i_res' = Return("Ok")
    /\ UNCHANGED <<ring, geometry, INITIALIZED, initialized, i_f, old_identifier,
                   recovered_logs_len, b_acc, b_rel, aux>>

\* Consumer::identifier(): the identifier slot as it is now
ConsumerIdentifier == identifier

\* A logger that takes the producer for initialized from the start.
SeesInitialized_Always == TRUE

\* logger.rs:52  self.initialized.load(Ordering::Acquire)
SeesInitialized == initialized

\* logger.rs:52  if self.initialized.load(Acquire); bytes logged before are dropped
\* without a trace
LoggerWrite(k) ==
    /\ SeesInitialized
    /\ offered + k <= InitOffered
    /\ WriteLoadRead(k)

\* The Consumer init returned: read, release, drop.
ConsumerStep ==
    /\ ipc = "ok"
    /\ \/ ReadLoadWrite
       \/ ReadLoadRead
       \/ \E used \in 0..(data_len + 1) : Release(used)
       \/ DropGrant

\* A reset as seen by init: statics are initialized again, the region is kept.
Reboot ==
    /\ ClearLocals
    /\ INITIALIZED' = FALSE /\ initialized' = FALSE
    /\ ipc' = "none" /\ i_f' = "keep" /\ old_identifier' = ZEROED_ID
    /\ recovered_logs_len' = 0 /\ i_res' = <<>>
    /\ b_acc' = Len(accepted) /\ b_rel' = Len(released)
    /\ UNCHANGED <<region, history, geometry, identifier, aux>>

\* The state of everything but the region when a boot starts.
BootStart ==
    /\ rpc = "check" /\ r_read = 0 /\ r_write = 0 /\ r_fresh = FALSE /\ r_hw = {}
    /\ ppc = "idle" /\ p_src = <<>> /\ p_read = 0 /\ p_write = 0 /\ p_len = 0 /\ p_i = 0
    /\ cpc = "idle" /\ c_write = 0 /\ c_empty = FALSE
    /\ g_read = 0 /\ g_len1 = 0 /\ g_len2 = 0
    /\ offered = 0 /\ released = <<>>
    /\ INITIALIZED = FALSE /\ initialized = FALSE
    /\ ipc = "none" /\ i_f = "keep" /\ old_identifier = ZEROED_ID
    /\ recovered_logs_len = 0 /\ i_res = <<>>
    /\ b_rel = 0
    /\ AuxIdle

\* Boots on a region init accepts, with a data area small enough to follow every
\* byte of it.
InitBoot ==
    /\ mem_start = 0
    /\ mem_len \in (SizeOfRingBuffer + 1)..(SizeOfRingBuffer + InitDataLen)
    /\ data_len = mem_len - SizeOfRingBuffer
    /\ header \in {MAGIC, ZeroHeader}
    /\ read \in 0..data_len
    /\ write \in 0..data_len
    /\ data = [i \in 0..(data_len - 1) |-> Garbage(i)]
    /\ identifier \in {ZEROED_ID, GarbageId}
    /\ accepted = IF ValidRegion THEN ReadAll ELSE <<>>
    /\ b_acc = Len(accepted)
    /\ BootStart

NextInit ==
    \/ \E f \in Closures : FirstInitCall(f)
    \/ InitAlign
    \/ InitSmall
    \/ InitLarge
    \/ InitRecover
    \/ InitLogger
    \/ InitGrant
    \/ InitLen
    \/ InitIdRead
    \/ InitIdWrite
    \/ \E k \in 0..InitOffered : LoggerWrite(k)
    \/ WriteLoadWrite
    \/ WriteCopy
    \/ WriteStore
    \/ ConsumerStep
    \/ Reboot

SpecInit == InitBoot /\ [][NextInit]_vars

\* Addresses of __defmt_persist_start: aligned, and off by 1 and by half the
\* alignment.
StartVals == {0, AlignOfRingBuffer, AlignOfRingBuffer \div 2, 1}

\* Region lengths: none, around the header size, around a quarter of i32::MAX of
\* data, around 2^30 of data.
LenVals ==
    {0, SizeOfRingBuffer - 1, SizeOfRingBuffer, SizeOfRingBuffer + 1, SizeOfRingBuffer + 2,
     SizeOfRingBuffer + (I32_MAX \div 4) - 1, SizeOfRingBuffer + (I32_MAX \div 4),
     SizeOfRingBuffer + 2^30 - 1, SizeOfRingBuffer + 2^30}

\* Index values of a region of any size: in range, and the first two out of range.
IndexVals == {0, 1, data_len, data_len + 1}

\* Boots on regions of every geometry.  No step of init reads or writes a data
\* byte, and nothing logs: the data area is left out.
InitGeometry ==
    /\ mem_start \in StartVals
    /\ mem_len \in LenVals
    /\ data_len = IF mem_len > SizeOfRingBuffer THEN mem_len - SizeOfRingBuffer ELSE 0
    /\ header \in {MAGIC, ZeroHeader}
    /\ read \in IndexVals
    /\ write \in IndexVals
    /\ data = <<>>
    /\ identifier \in {ZEROED_ID, GarbageId}
    /\ accepted = <<>>
    /\ b_acc = 0
    /\ BootStart

NextGeometry ==
    \/ \E f \in Closures : InitCall(f)
    \/ InitAlign
    \/ InitSmall
    \/ InitLarge
    \/ InitRecover
    \/ InitLogger
    \/ InitGrant
    \/ InitLen
    \/ InitIdRead
    \/ InitIdWrite
    \/ Reboot

SpecGeometry == InitGeometry /\ [][NextGeometry]_vars

(***************************************************************************)
(* The global logger, logger.rs:100-174.  A log statement is acquire, one  *)
(* write or flush, release.  One core: a context inside a log statement    *)
(* can be preempted between any two statements by an interrupt handler     *)
(* (while the interrupt mask is open) or by a non-maskable context (NMI,   *)
(* HardFault, panic), which runs its own log statement to the end before   *)
(* the preempted context resumes.  `trace` records every call made.        *)
(***************************************************************************)
\* Log statements in one behaviour.
MaxFrames == 2
\* Contexts inside a log statement at the same time.
MaxNest == 2

\* Everything the logger leaves alone.
notLogger == <<ring, boot, waiter, exec, padding, extra>>

\* The running context.
Top == stk[Len(stk)]

\* The running context moves to pc.
Goto(pc) == [stk EXCEPT ![Len(stk)].pc = pc]

\* The running context returns from release.
Pop == SubSeq(stk, 1, Len(stk) - 1)

\* One call of the running context.
Call(name, value) == Append(trace, <<Top.f, name, value>>)

\* A reentrancy test that never drops.
IsReentrant_Never(was_depth) == FALSE

\* logger.rs:105, `was_depth > 0`
IsReentrant(was_depth) == was_depth > 0

\* logger.rs:130 and 166, `depth.load(Relaxed) != 1`
NotOwner == depth # 1

\* logger.rs:144, `was_depth != 1`
NotOutermost(was_depth) == was_depth # 1

\* A log statement starts: in thread mode or in an interrupt handler while the
\* mask is open, in a non-maskable context at any point.
LogStart(kind, op) ==
    /\ frames < MaxFrames
    /\ Len(stk) < MaxNest
    /\ kind = "irq" => ~masked
    /\ frames' = frames + 1
    /\ stk' = Append(stk, [f |-> frames + 1, kind |-> kind, op |-> op, pc |-> "acquire"])
    /\ UNCHANGED <<depth, cs_state, masked, trace, notLogger>>

\* logger.rs:104-107, fetch_add and the early return
Acquire ==
    /\ stk # <<>> /\ Top.pc = "acquire"
    /\ depth' = depth + 1
    /\ trace' = Call("acquire", depth)
    /\ stk' = Goto(IF IsReentrant(depth) THEN "body" ELSE "cs_acquire")
    /\ UNCHANGED <<cs_state, masked, frames, notLogger>>

\* logger.rs:112, critical_section::acquire(): returns whether interrupts were
\* enabled and disables them
CsAcquire ==
    /\ stk # <<>> /\ Top.pc = "cs_acquire"
    /\ masked' = TRUE
    /\ trace' = Call("cs_acquire", ~masked)
    /\ stk' = [stk EXCEPT ![Len(stk)] = [@ EXCEPT !.pc = "cs_store"] @@ [restore |-> ~masked]]
    /\ UNCHANGED <<depth, cs_state, frames, notLogger>>

\* logger.rs:119, cs_state.write(restore)
CsStore ==
    /\ stk # <<>> /\ Top.pc = "cs_store"
    /\ cs_state' = Top.restore
    /\ trace' = Call("cs_store", Top.restore)
    /\ stk' = Goto("start_frame")
    /\ UNCHANGED <<depth, masked, frames, notLogger>>

\* logger.rs:125, encoder.start_frame(write_all)
StartFrame ==
    /\ stk # <<>> /\ Top.pc = "start_frame"
    /\ trace' = Call("start_frame", 0)
    /\ stk' = Goto("body")
    /\ UNCHANGED <<depth, cs_state, masked, frames, notLogger>>

\* logger.rs:164-174, Logger::write
LogWrite ==
    /\ stk # <<>> /\ Top.pc = "body" /\ Top.op = "write"
    /\ trace' = IF NotOwner THEN trace ELSE Call("write", 0)
    /\ stk' = Goto("release")
    /\ UNCHANGED <<depth, cs_state, masked, frames, notLogger>>

\* logger.rs:128-139, Logger::flush (no `rtt` feature: nothing to flush)
LogFlush ==
    /\ stk # <<>> /\ Top.pc = "body" /\ Top.op = "flush"
    /\ stk' = Goto("release")
    /\ UNCHANGED <<depth, cs_state, masked, trace, frames, notLogger>>

\* logger.rs:143-146, fetch_sub and the early return
LogRelease ==
    /\ stk # <<>> /\ Top.pc = "release"
    /\ depth' = depth - 1
    /\ stk' = IF NotOutermost(depth) THEN Pop ELSE Goto("end_frame")
    /\ UNCHANGED <<cs_state, masked, trace, frames, notLogger>>

\* logger.rs:150, encoder.end_frame(write_all)
EndFrame ==
    /\ stk # <<>> /\ Top.pc = "end_frame"
    /\ trace' = Call("end_frame", 0)
    /\ stk' = Goto("cs_release")
    /\ UNCHANGED <<depth, cs_state, masked, frames, notLogger>>

\* logger.rs:156, critical_section::release(cs_state.read()): enables interrupts
\* when the token says they were enabled
CsRelease ==
    /\ stk # <<>> /\ Top.pc = "cs_release"
    /\ masked' = IF cs_state = TRUE THEN FALSE ELSE masked
    /\ trace' = Call("cs_release", cs_state)
    /\ stk' = Goto("wake")
    /\ UNCHANGED <<depth, cs_state, frames, notLogger>>

\* logger.rs:161, WAKER.wake(), and the return of release
LogWake ==
    /\ stk # <<>> /\ Top.pc = "wake"
    /\ trace' = Call("wake", 0)
    /\ stk' = Pop
    /\ UNCHANGED <<depth, cs_state, masked, frames, notLogger>>

\* Thread-mode code outside a log statement enters or leaves a critical section
\* of its own (critical_section::with around a log statement).
UserMask ==
    /\ stk = <<>>
    /\ frames < MaxFrames
    /\ masked' = ~masked
    /\ UNCHANGED <<depth, cs_state, stk, trace, frames, notLogger>>

\* The logger after init returned Ok, on the smallest region.
InitLoggerSpec ==
    /\ mem_start = 0 /\ mem_len = SizeOfRingBuffer + 1 /\ data_len = 1
    /\ header = MAGIC /\ read = 0 /\ write = 0
    /\ data = [i \in 0..0 |-> Garbage(i)]
    /\ identifier = ZEROED_ID
    /\ rpc = "done" /\ r_read = 0 /\ r_write = 0 /\ r_fresh = FALSE /\ r_hw = {}
    /\ ppc = "idle" /\ p_src = <<>> /\ p_read = 0 /\ p_write = 0 /\ p_len = 0 /\ p_i = 0
    /\ cpc = "idle" /\ c_write = 0 /\ c_empty = FALSE
    /\ g_read = 0 /\ g_len1 = 0 /\ g_len2 = 0
    /\ offered = 0 /\ accepted = <<>> /\ released = <<>>
    /\ INITIALIZED = TRUE /\ initialized = TRUE
    /\ ipc = "ok" /\ i_f = "keep" /\ old_identifier = ZEROED_ID
    /\ recovered_logs_len = 0 /\ i_res = <<"Ok">>
    /\ b_acc = 0 /\ b_rel = 0
    /\ AuxIdle

NextLogger ==
    \/ \E kind \in {"irq", "nmi"}, op \in {"write", "flush"} : LogStart(kind, op)
    \/ Acquire
    \/ CsAcquire
    \/ CsStore
    \/ StartFrame
    \/ LogWrite
    \/ LogFlush
    \/ LogRelease
    \/ EndFrame
    \/ CsRelease
    \/ LogWake
    \/ UserMask

SpecLogger == InitLoggerSpec /\ [][NextLogger]_vars

(***************************************************************************)
(* The data-ready waiter: AtomicWaker (atomic_waker.rs:26-40),             *)
(* Consumer::wait_for_data (ring_buffer.rs:457-470) and the wake at the    *)
(* end of Logger::release (logger.rs:161).  A log statement appends inside *)
(* its critical section; register and take run inside critical sections    *)
(* of their own, one step each.  Everything else interleaves freely: the   *)
(* consumer task and the log statements run at any priorities.             *)
(***************************************************************************)
\* Largest data area of the boots with a waiting consumer.
AsyncDataLen == 2
\* Total number of source bytes the log statements of one behaviour hand over.
AsyncOffered == 2
\* Polls of wait_for_data in one behaviour of the ring with a waiting consumer.
AsyncPolls == 1
\* Log statements in one behaviour of the ring with a waiting consumer.
AsyncFrames == 1
\* Registrations in one behaviour.
MaxPolls == 2

\* Everything the waiter leaves alone.
notWaiter == <<boot, logger, exec, padding, extra>>

\* A register that stores nothing.
SlotAfterRegister_Unchanged(new_waker) == waker

\* atomic_waker.rs:30, `replace(new_waker.clone())`: the slot afterwards
SlotAfterRegister(new_waker) == new_waker

\* A take that leaves the waker in the slot.
SlotAfterTake_Kept == waker

\* atomic_waker.rs:37, `take()`: the slot afterwards
SlotAfterTake == NoWaker

\* logger.rs:100-126, Logger::acquire of a log statement that owns the logger
FrameAcquire ==
    /\ rpc = "done"
    /\ fpc = "idle"
    /\ frames' = frames + 1
    /\ fpc' = "frame"
    /\ UNCHANGED <<ring, waker, regs, taken, woken, owed, wpc, w_id, w_res, w_rel,
                   boot, depth, cs_state, masked, stk, trace, exec, padding, extra>>

\* logger.rs:79-81, 48-56: an encoder call hands k bytes to write_all, which
\* calls Producer::write
FrameWrite(k) ==
    /\ fpc = "frame"
    /\ WriteLoadRead(k)

\* the Producer::write call of a log statement goes on
FrameWriteStep ==
    /\ fpc = "frame"
    /\ (WriteLoadWrite \/ WriteCopy \/ WriteStore)

\* logger.rs:141-156, Logger::release up to the release of the critical section
FrameRelease ==
    /\ fpc = "frame"
    /\ ppc \in {"idle", "ret"}
    /\ fpc' = "idle"
    /\ owed' = owed + 1
    /\ UNCHANGED <<ring, waker, regs, taken, woken, wpc, w_id, w_res, w_rel, notWaiter>>

\* atomic_waker.rs:37, AtomicWaker::wake: take() inside the critical section
WakeTake ==
    /\ owed > 0
    /\ owed' = owed - 1
    /\ taken' = IF waker = NoWaker THEN taken ELSE taken \cup {waker}
    /\ waker' = SlotAfterTake
    /\ UNCHANGED <<ring, regs, woken, fpc, wpc, w_id, w_res, w_rel, notWaiter>>

\* atomic_waker.rs:38, `w.wake()`
WakerWake(w) ==
    /\ w \in taken
    /\ taken' = taken \ {w}
    /\ woken' = Append(woken, w)
    /\ UNCHANGED <<ring, waker, regs, owed, fpc, wpc, w_id, w_res, w_rel, notWaiter>>

\* ring_buffer.rs:460, WAKER.register(cx.waker()): atomic_waker.rs:27-31
PollRegister ==
    /\ rpc = "done"
    /\ cpc = "idle" /\ wpc = "idle"
    /\ regs' = regs + 1
    /\ w_id' = regs + 1
    /\ waker' = SlotAfterRegister(regs + 1)
    /\ w_res' = "none"
    /\ wpc' = "load_write"
    /\ UNCHANGED <<ring, taken, woken, owed, fpc, w_rel, notWaiter>>

\* ring_buffer.rs:462 -> :372, is_empty: load write (Acquire)
PollLoadWrite ==
    /\ wpc = "load_write"
    /\ c_write' = write
    /\ wpc' = "load_read"
    /\ UNCHANGED <<region, recovery, producer, cpc, c_empty, g_read, g_len1, g_len2, history,
                   waker, regs, taken, woken, owed, fpc, w_id, w_res, w_rel, notWaiter>>

\* ring_buffer.rs:462-466 -> :374-376, is_empty: load read; Pending or Ready
PollLoadRead ==
    /\ wpc = "load_read"
    /\ c_empty' = IsEmptyResult(c_write, read)
    /\ w_res' = IF IsEmptyResult(c_write, read) THEN "Pending" ELSE "Ready"
    /\ w_rel' = Len(released)
    /\ wpc' = "idle"
    /\ UNCHANGED <<region, recovery, producer, cpc, c_write, g_read, g_len1, g_len2, history,
                   waker, regs, taken, woken, owed, fpc, w_id, notWaiter>>

\* The consumer task between two polls: wait_for_data borrows the consumer
\* mutably, so read and release run only when no poll is under way.
AsyncConsumer ==
    /\ wpc = "idle"
    /\ \/ ReadLoadWrite
       \/ ReadLoadRead
       \/ Release(1)
       \/ ReleaseAll
       \/ DropGrant

\* Boots that returned from init with Ok and drained what the ring recovered:
\* an empty ring at any index.
InitAsync ==
    /\ mem_start = 0
    /\ mem_len \in (SizeOfRingBuffer + 1)..(SizeOfRingBuffer + AsyncDataLen)
    /\ data_len = mem_len - SizeOfRingBuffer
    /\ header = MAGIC
    /\ read \in 0..(data_len - 1)
    /\ write = read
    /\ data = [i \in 0..(data_len - 1) |-> Garbage(i)]
    /\ identifier = ZEROED_ID
    /\ rpc = "done" /\ r_read = 0 /\ r_write = 0 /\ r_fresh = FALSE /\ r_hw = {}
    /\ ppc = "idle" /\ p_src = <<>> /\ p_read = 0 /\ p_write = 0 /\ p_len = 0 /\ p_i = 0
    /\ cpc = "idle" /\ c_write = 0 /\ c_empty = FALSE
    /\ g_read = 0 /\ g_len1 = 0 /\ g_len2 = 0
    /\ offered = 0 /\ accepted = ReadAll /\ released = <<>>
    /\ INITIALIZED = TRUE /\ initialized = TRUE
    /\ ipc = "ok" /\ i_f = "keep" /\ old_identifier = ZEROED_ID
    /\ recovered_logs_len = 0 /\ i_res = <<"Ok">>
    /\ b_acc = 0 /\ b_rel = 0
    /\ AuxIdle

\* The steps of a log statement that is under way.
LoggerRuns ==
    \/ FrameWriteStep
    \/ FrameRelease
    \/ WakeTake
    \/ \E w \in taken : WakerWake(w)

NextAsync ==
    \/ (frames < AsyncFrames /\ FrameAcquire)
    \/ \E k \in 0..MaxK : (offered + k <= AsyncOffered /\ FrameWrite(k))
    \/ LoggerRuns
    \/ (regs < AsyncPolls /\ PollRegister)
    \/ PollLoadWrite
    \/ PollLoadRead
    \/ AsyncConsumer

SpecAsync == InitAsync /\ [][NextAsync]_vars

\* A log statement runs straight through to the return of release: it makes
\* finitely many Producer::write calls, none of its statements blocks, and a
\* handler it runs in returns.
FairAsync ==
    /\ SpecAsync
    /\ WF_vars(FrameWriteStep)
    /\ SF_vars(FrameRelease)
    /\ WF_vars(WakeTake)
    /\ WF_vars(\E w \in taken : WakerWake(w))

\* The waiter on its own: registrations and wakes in every order, no append.
NextWaker ==
    \/ (frames < MaxFrames /\ FrameAcquire)
    \/ FrameRelease
    \/ WakeTake
    \/ \E w \in taken : WakerWake(w)
    \/ (regs < MaxPolls /\ PollRegister)
    \/ PollLoadWrite
    \/ PollLoadRead

SpecWaker == InitAsync /\ [][NextWaker]_vars

(***************************************************************************)
(* async_test.rs: block_on(join(writer_task(), reader_task(&mut consumer))).*)
(* block_on polls the join in a loop (its waker does nothing); every poll  *)
(* of the join polls the writer, then the reader, each unless it is done.  *)
(* Interrupts do not log: a task runs from one Pending to the next without *)
(* interleaving.  A log statement is one Producer::write call of a frame   *)
(* that fits the ring, the frames together within MaxOffered bytes; the    *)
(* reader's grant is the one of ring_buffer.rs (both slices).              *)
(***************************************************************************)
\* Largest data area of the boots running the two tasks.
TestDataLen == 3
\* async_test.rs:52-58 and :63, three log statements, three awaits
TestFrames == 3

\* A join that polls the writer again.
AfterWriter_Again == "a"

\* async_test.rs:31-38, join: the reader is polled after the writer unless done
AfterWriter == IF exec.b_pc = "done" THEN "a" ELSE "b"

\* async_test.rs:26-30, join: the writer is polled next unless done
AfterReader == IF exec.a_pc = "done" THEN "b" ELSE "a"

\* Everything the executor's own steps leave alone.
notExec == <<ring, boot, logger, waiter, padding, extra>>

\* async_test.rs:49 -> 83-90, yield_once: the first poll returns Pending
WriterYield ==
    /\ exec.turn = "a" /\ exec.a_pc = "start"
    /\ exec' = [exec EXCEPT !.a_pc = "yielded", !.turn = AfterWriter]
    /\ UNCHANGED notExec

\* async_test.rs:83-85, yield_once: the second poll returns Ready; the log
\* statement that follows starts (:52, :55, :58)
WriterResume ==
    /\ exec.turn = "a" /\ exec.a_pc = "yielded"
    /\ exec' = [exec EXCEPT !.a_pc = "logging", !.a_off = offered]
    /\ UNCHANGED notExec

\* defmt::info!: acquire, the frame, release, wake
WriterLog ==
    /\ exec.turn = "a" /\ exec.a_pc = "logging"
    /\ \/ (frames = exec.a_logged /\ FrameAcquire)
       \/ \E k \in 1..MaxK :
            /\ offered = exec.a_off
            /\ k <= data_len - 1
            /\ offered + k + (TestFrames - frames) <= MaxOffered
            /\ FrameWrite(k)
       \/ FrameWriteStep
       \/ (offered > exec.a_off /\ FrameRelease)
       \/ WakeTake
       \/ \E w \in taken : WakerWake(w)

\* The log statement returned: the next yield_once returns Pending (:54, :57),
\* or the task is finished (:59).
WriterLogged ==
    /\ exec.turn = "a" /\ exec.a_pc = "logging"
    /\ frames = exec.a_logged + 1
    /\ fpc = "idle" /\ owed = 0 /\ taken = {}
    /\ exec' = IF exec.a_logged + 1 = TestFrames
               THEN [exec EXCEPT !.a_logged = @ + 1, !.a_pc = "done",
                                 !.turn = IF exec.b_pc = "done" THEN "end" ELSE "b"]
               ELSE [exec EXCEPT !.a_logged = @ + 1, !.a_pc = "yielded", !.turn = AfterWriter]
    /\ UNCHANGED notExec

\* async_test.rs:65, consumer.wait_for_data().await: one poll
ReaderPoll ==
    /\ exec.turn = "b" /\ exec.b_pc = "wait"
    /\ \/ (regs = exec.b_polls /\ PollRegister)
       \/ PollLoadWrite
       \/ PollLoadRead

\* The poll returned Pending: the reader task returns Pending.
ReaderPending ==
    /\ exec.turn = "b" /\ exec.b_pc = "wait"
    /\ regs = exec.b_polls + 1 /\ wpc = "idle" /\ w_res = "Pending"
    /\ exec' = [exec EXCEPT !.b_polls = @ + 1, !.turn = AfterReader]
    /\ UNCHANGED notExec

\* The poll returned Ready: the drain loop starts (:68).
ReaderReady ==
    /\ exec.turn = "b" /\ exec.b_pc = "wait"
    /\ regs = exec.b_polls + 1 /\ wpc = "idle" /\ w_res = "Ready"
    /\ exec' = [exec EXCEPT !.b_polls = @ + 1, !.b_pc = "drain"]
    /\ UNCHANGED notExec

\* async_test.rs:69-74, consumer.read(); a grant with bytes is written to the
\* uart and released whole
ReaderDrain ==
    /\ exec.turn = "b" /\ exec.b_pc = "drain"
    /\ \/ ReadLoadWrite
       \/ ReadLoadRead
       \/ (g_len1 + g_len2 > 0 /\ ReleaseAll)

\* async_test.rs:70-72, an empty grant: break
ReaderBreak ==
    /\ exec.turn = "b" /\ exec.b_pc = "drain"
    /\ cpc = "granted" /\ g_len1 + g_len2 = 0
    /\ exec' = [exec EXCEPT !.b_pc = "break"]
    /\ UNCHANGED notExec

\* the grant goes out of scope
ReaderDrop ==
    /\ exec.turn = "b" /\ exec.b_pc = "break"
    /\ DropGrant

\* async_test.rs:63, the next iteration of `for _ in 0..3`, or the end (:77)
ReaderNext ==
    /\ exec.turn = "b" /\ exec.b_pc = "break"
    /\ cpc = "idle"
    /\ exec' = IF exec.b_iter + 1 = TestFrames
               THEN [exec EXCEPT !.b_iter = @ + 1, !.b_pc = "done",
                                 !.turn = IF exec.a_pc = "done" THEN "end" ELSE "a"]
               ELSE [exec EXCEPT !.b_iter = @ + 1, !.b_pc = "wait"]
    /\ UNCHANGED notExec

\* Boots of async_test.rs after init: an empty ring at any index, with room
\* for a frame.
InitTest ==
    /\ mem_start = 0
    /\ mem_len \in (SizeOfRingBuffer + 2)..(SizeOfRingBuffer + TestDataLen)
    /\ data_len = mem_len - SizeOfRingBuffer
    /\ header = MAGIC
    /\ read \in 0..(data_len - 1)
    /\ write = read
    /\ data = [i \in 0..(data_len - 1) |-> Garbage(i)]
    /\ identifier = ZEROED_ID
    /\ rpc = "done" /\ r_read = 0 /\ r_write = 0 /\ r_fresh = FALSE /\ r_hw = {}
    /\ ppc = "idle" /\ p_src = <<>> /\ p_read = 0 /\ p_write = 0 /\ p_len = 0 /\ p_i = 0
    /\ cpc = "idle" /\ c_write = 0 /\ c_empty = FALSE
    /\ g_read = 0 /\ g_len1 = 0 /\ g_len2 = 0
    /\ offered = 0 /\ accepted = <<>> /\ released = <<>>
    /\ INITIALIZED = TRUE /\ initialized = TRUE
    /\ ipc = "ok" /\ i_f = "keep" /\ old_identifier = ZEROED_ID
    /\ recovered_logs_len = 0 /\ i_res = <<"Ok">>
    /\ b_acc = 0 /\ b_rel = 0
    /\ AuxIdle

NextTest ==
    \/ WriterYield
    \/ WriterResume
    \/ WriterLog
    \/ WriterLogged
    \/ ReaderPoll
    \/ ReaderPending
    \/ ReaderReady
    \/ ReaderDrain
    \/ ReaderBreak
    \/ ReaderDrop
    \/ ReaderNext

SpecTest == InitTest /\ [][NextTest]_vars

\* async_test.rs:94-118, block_on polls again after every Pending: the tasks
\* always take their next step.
FairTest == SpecTest /\ WF_vars(NextTest)

(***************************************************************************)
(* Properties                                                              *)
(***************************************************************************)
IsPrefix(s, t) == Len(s) <= Len(t) /\ SubSeq(t, 1, Len(s)) = s

\* The last n elements of s.
Suffix(s, n) == SubSeq(s, Len(s) - n + 1, Len(s))

\* A byte that came from a Producer::write call of this behaviour.
Numbered(b) == b >= 1 /\ b <= MaxOffered

\* The region went through recovery.
Recovered == rpc \in {"split", "done"}

\* Everything published and not released is what a read returns, in order.
Lossless == released \o ReadAll = accepted

\* data_len - 1 - readable, for the indices Producer::write loaded.
AvailableAtCall == data_len - 1 - ((p_write - p_read) % data_len)

\* C1: once the region came out of recovery, at every point of every interleaving
\* of Producer::write, Consumer::read, GrantR::release and grant drop, read and
\* write are below data_len and the number of readable bytes is
\* (write - read) mod data_len, between 0 and data_len - 1.
C1_IndicesInRange ==
    Recovered =>
        /\ read < data_len
        /\ write < data_len
        /\ Len(ReadAll) = (write - read) % data_len
        /\ Len(ReadAll) \in 0..(data_len - 1)

\* The indices wrapped, the consumer released and holds a grant, the producer is
\* in the middle of a copy.
C1_Witness ==
    /\ rpc = "done"
    /\ write < read
    /\ released # <<>>
    /\ cpc = "granted"
    /\ ppc = "copy"

\* C2: FIFO under interleaving: the bytes the consumer released, in release order,
\* are a prefix of the bytes Producer::write published, and so are they followed
\* by the bytes of a grant the consumer holds (no byte is read before it was
\* published, none twice, none out of order).
C2_Fifo ==
    /\ IsPrefix(released, accepted)
    /\ cpc = "granted" => IsPrefix(released \o GrantBytes, accepted)

\* Producer::write published between the two loads of Consumer::read, after the
\* consumer released more bytes than the data area holds (the indices wrapped).
C2_Witness ==
    /\ cpc = "read_read"
    /\ c_write # write
    /\ data_len >= 2
    /\ Len(released) > data_len
    /\ Numbered(released[Len(released)])

\* C3: Producer::write of k bytes with k <= available has, when it returns, advanced
\* write by exactly k modulo data_len, and the reads return the bytes that were
\* unread followed by exactly the k source bytes.
C3_LosslessAppend ==
    (ppc = "ret" /\ Len(p_src) <= AvailableAtCall) =>
        /\ write = (p_write + Len(p_src)) % data_len
        /\ Len(accepted) >= Len(p_src)
        /\ Suffix(accepted, Len(p_src)) = p_src
        /\ Lossless

\* A write of at least two bytes that crossed the end of the data area returned.
C3_Witness ==
    /\ ppc = "ret"
    /\ Len(p_src) >= 2
    /\ Len(p_src) <= AvailableAtCall
    /\ p_write + Len(p_src) > data_len

\* C4: Producer::write of k bytes with k > available has, when it returns, advanced
\* write by exactly available, published the first `available` source bytes and
\* none of the others, and left the bytes that were readable as they were; in no
\* state of the call is the producer unable to take its next step.
C4_OverflowDropsTail ==
    /\ (ppc = "ret" /\ Len(p_src) > AvailableAtCall) =>
          /\ p_len = AvailableAtCall
          /\ write = (p_write + AvailableAtCall) % data_len
          /\ Len(accepted) >= AvailableAtCall
          /\ Suffix(accepted, AvailableAtCall) = SubSeq(p_src, 1, AvailableAtCall)
          /\ Lossless
    /\ ppc \in {"load_write", "copy", "store"} =>
          ENABLED (WriteLoadWrite \/ WriteCopy \/ WriteStore)

\* A write that lost a tail but stored a head returned, with bytes readable
\* before it still unread.
C4_Witness ==
    /\ ppc = "ret"
    /\ Len(p_src) > AvailableAtCall
    /\ AvailableAtCall >= 1
    /\ Len(ReadAll) > AvailableAtCall

\* C5: recovery round trip: a recovery that starts on a region with a valid header
\* and in-range indices changes neither header, read, write nor a data byte, and
\* when it ends with nothing released so far, a read returns exactly the bytes
\* appended, in order.
C5_RecoveryRoundTrip ==
    /\ [][(rpc # "done" /\ ValidRegion) =>
            (header' = header /\ read' = read /\ write' = write /\ data' = data)]_vars
    /\ [](rpc = "split" /\ released = <<>> => ReadAll = accepted)

\* Recovery ended on a region that holds two bytes a previous boot appended, the
\* second of them across the end of the data area.
C5_Witness ==
    /\ rpc = "split"
    /\ ~r_fresh
    /\ released = <<>>
    /\ write < read
    /\ Len(accepted) >= 2
    /\ Numbered(accepted[Len(accepted)])
    /\ Numbered(accepted[Len(accepted) - 1])

\* header == MAGIC, both indices in range and read != write
ValidNonEmpty == ValidRegion /\ read # write

\* C6: crash safety of recovery: no step of recover_or_reinitialize, on the fresh
\* path or on the repair path, produces a region with header == MAGIC, both
\* indices in range and read != write, unless header, read and write were in
\* exactly that state before the step (hence before recovery started); a region
\* that never held published bytes is empty whenever a recovery ends.
C6_RecoveryCrashSafe ==
    /\ [][(rpc # "done" /\ ValidNonEmpty') =>
            (header' = header /\ read' = read /\ write' = write)]_vars
    /\ [](rpc = "split" /\ accepted = <<>> => read = write)

\* A reset point between the two stores of the (false, false) arm.
C6_Witness ==
    /\ rpc = "repair_fix2"
    /\ header = MAGIC
    /\ read = 0
    /\ ~InRange(write)

\* C7: a header that differs from MAGIC in any byte sends recovery down the fresh
\* path whatever the indices are; the fresh path ends with header == MAGIC,
\* read == 0, write == 0 and a read returning two empty slices, and what is
\* appended afterwards is readable.
C7_BadHeaderIsFresh ==
    /\ [][(rpc = "check" /\ header # MAGIC /\ rpc' # "check") => rpc' = "fresh_read"]_vars
    /\ [](rpc = "split" /\ r_fresh =>
            /\ header = MAGIC /\ read = 0 /\ write = 0
            /\ Bufs(read, ReadLens(read, write)[1], ReadLens(read, write)[2]) = <<<<>>, <<>>>>)
    /\ [](rpc = "done" => Lossless)

\* The fresh path at work on a header that differs from MAGIC in its last byte only,
\* with a write index out of range.
C7_Witness ==
    /\ rpc = "fresh_write"
    /\ header = [MAGIC EXCEPT ![16] = 0]
    /\ read = 0
    /\ ~InRange(write)

C9_RepairBothIndices ==
    (rpc = "split" /\ ~r_fresh /\ ~InRange(r_read) /\ ~InRange(r_write)) =>
        (header = MAGIC /\ read = 0 /\ write = 0)

\* The (false, false) arm ran to its end.
C9_Witness ==
    /\ rpc = "split"
    /\ ~r_fresh
    /\ ~InRange(r_read)
    /\ ~InRange(r_write)
    /\ read = 0
    /\ write = 0

\* C10: consumption persists across a reset: whenever a recovery ends, a read
\* returns exactly the bytes that were published and not released, in order, and
\* none of the released ones.
C10_ReleasedStaysReleased ==
    rpc = "split" => (Lossless /\ Len(ReadAll) = Len(accepted) - Len(released))

\* A recovery ended after a boot that appended, released, and appended again.
C10_Witness ==
    /\ rpc = "split"
    /\ released # <<>>
    /\ Numbered(released[Len(released)])
    /\ Len(accepted) > Len(released)
    /\ Numbered(accepted[Len(accepted)])

\* What a Consumer::read taken in the current state returns: (slice1, slice2).
ReadBufs == Bufs(read, ReadLens(read, write)[1], ReadLens(read, write)[2])

\* buf[from..to] as a sequence
Range(from, to) == [i \in 1..(to - from) |-> data[from + i - 1]]

C12_ReleaseAdvance ==
    /\ [](cpc = "granted" =>
            \A n \in 0..(data_len + 1) \cup {USIZE_MAX} :
                NewRead(n) = (g_read + Min(n, g_len1 + g_len2)) % data_len)
    /\ [][(cpc = "granted" /\ cpc' = "idle" /\ rpc' = "done") =>
            LET k == Len(released') - Len(released)
            IN  /\ k <= g_len1 + g_len2
                /\ read' = (g_read + k) % data_len
                /\ ReleaseAll => k = g_len1 + g_len2]_vars

\* Releases moved read across the end of the data area: the last two bytes
\* released were the last and the first byte of the data area.
C12_Witness ==
    /\ cpc = "idle"
    /\ data_len >= 2
    /\ read = 1
    /\ Len(released) >= 2
    /\ Numbered(released[Len(released)])
    /\ released[Len(released)] = released[Len(released) - 1] + 1
    /\ c_write = read

\* C13: dropping a read grant, or release(0), leaves header, read, write and data
\* unchanged, and with no append since the grant was taken a read in the state that
\* follows returns the two slices of the grant.
C13_DropKeepsData ==
    [][(DropGrant \/ Release(0)) =>
          /\ header' = header /\ read' = read /\ write' = write /\ data' = data
          /\ write = c_write => ReadBufs' = Bufs(g_read, g_len1, g_len2)]_vars

\* A grant of two non-empty slices taken again after bytes were released, with no
\* append since the load of write: the state a drop or a release(0) acts on.
C13_Witness ==
    /\ cpc = "granted"
    /\ write = c_write
    /\ g_len1 > 0
    /\ g_len2 > 0
    /\ released # <<>>
    /\ ENABLED DropGrant

\* The init call that passed the swap has returned.
FirstReturned == i_res # <<>> /\ i_res[1] # "running"

Errors == {"BadAlignment", "TooSmall", "TooLarge"}

Misaligned == mem_start % AlignOfRingBuffer # 0

\* C14: init is once-only per boot: whatever the order of the init calls and of
\* the steps of the call in the body, at most one call returns Ok and every call
\* after the first returns AlreadyInitialized, also when the first call failed
\* with BadAlignment, TooSmall or TooLarge.
C14_InitOnce ==
    /\ Cardinality({i \in DOMAIN i_res : i_res[i] = "Ok"}) <= 1
    /\ \A i \in DOMAIN i_res : i > 1 => i_res[i] = "AlreadyInitialized"

\* The first call failed on the geometry and a second call was made after it.
C14_Witness ==
    /\ Len(i_res) >= 2
    /\ i_res[1] \in Errors
    /\ i_res[2] = "AlreadyInitialized"

\* C15: init validates the geometry before it touches the region: BadAlignment
\* when the base is not aligned, else TooSmall when the region is not longer than
\* the header, else TooLarge; when it returned one of these errors the recovery was
\* never entered and the logger was not given a producer, and every step that
\* changes a byte of the region is a step of the call past the three tests.
C15_GeometryFirst ==
    /\ [](FirstReturned =>
            /\ i_res[1] = "BadAlignment" <=> Misaligned
            /\ i_res[1] = "TooSmall" <=> (~Misaligned /\ mem_len <= SizeOfRingBuffer)
            /\ i_res[1] = "TooLarge" => (~Misaligned /\ mem_len > SizeOfRingBuffer)
            /\ i_res[1] \in Errors => (ipc = "err" /\ rpc = "check" /\ ~initialized))
    /\ [][<<header, identifier, read, write, data>>' # <<header, identifier, read, write, data>>
            => (ipc \in {"recover", "id_write"} /\ i_res[1] = "running")]_vars
    /\ [][ipc = "err" => ipc' \in {"err", "none"}]_vars

\* An aligned region of exactly the size of the header was refused, on a region
\* whose indices a recovery would have changed.
C15_Witness ==
    /\ FirstReturned
    /\ i_res[1] = "TooSmall"
    /\ mem_len = SizeOfRingBuffer
    /\ header = MAGIC
    /\ read # write

\* C16, as the specification states it: init returns TooLarge exactly when the
\* region is aligned, longer than the header, and its data length is >= 2^30.
C16_TooLargeFrom2Pow30 ==
    FirstReturned =>
        (i_res[1] = "TooLarge" <=>
            (~Misaligned /\ mem_len > SizeOfRingBuffer /\ data_len >= 2^30))

\* C16, amended: init returns TooLarge exactly when the region is aligned, longer
\* than the header, and its data length is >= i32::MAX / 4 = 536870911; every data
\* length in 1..536870910 of an aligned region is accepted.
C16_TooLargeFromQuarterOfI32Max ==
    FirstReturned =>
        /\ i_res[1] = "TooLarge" <=>
              (~Misaligned /\ mem_len > SizeOfRingBuffer /\ data_len >= 536870911)
        /\ (~Misaligned /\ data_len \in 1..536870910) => i_res[1] = "Ok"

\* An aligned region with 536870911 bytes of data, fewer than 2^30, was refused.
C16_Witness ==
    /\ FirstReturned
    /\ i_res[1] = "TooLarge"
    /\ ~Misaligned
    /\ data_len = 536870911
    /\ data_len < 2^30

\* C17: identifier round trip: the identifier slot changes only in the identifier
\* write of init, which stores f(recovered_identifier) where recovered_identifier
\* is what the slot held until then, so that a boot recovers the current
\* identifier of the boot before it; when init has returned,
\* consumer.identifier() is f(recovered_identifier).  With the closure
\* `ZERO -> ID_A, else ID_B`: recovered ZERO goes with current ID_A, every other
\* recovered identifier (ID_A in the boot that follows) with current ID_B.
C17_IdentifierRoundTrip ==
    /\ [][identifier' # identifier =>
            /\ ipc = "id_write" /\ ipc' = "ok"
            /\ old_identifier = identifier
            /\ identifier' = Closure(i_f, old_identifier)]_vars
    /\ [](ipc = "ok" =>
            /\ ConsumerIdentifier = Closure(i_f, old_identifier)
            /\ i_f = "phase" =>
                  \/ old_identifier = ZEROED_ID /\ ConsumerIdentifier = PHASE1_ID
                  \/ old_identifier # ZEROED_ID /\ ConsumerIdentifier = PHASE2_ID)

\* Phase 2 of identifier_test: the boot recovered the identifier phase 1 stored
\* over a zeroed slot, and stored the second one.
C17_Witness ==
    /\ ipc = "ok"
    /\ i_f = "phase"
    /\ old_identifier = PHASE1_ID
    /\ ConsumerIdentifier = PHASE2_ID

\* C18: in every execution of init, with interrupts that log while init runs and
\* with resets, the identifier slot holds the identifier the caller supplied
\* before a write of this boot is committed to the ring: whenever bytes were
\* published in this boot, init is past its identifier write.
C18_IdentifierBeforeWrites ==
    Len(accepted) > b_acc =>
        (ipc = "ok" /\ identifier = Closure(i_f, old_identifier))

\* C19: recovered_logs_len is the number of bytes not produced by the current run:
\* in every interleaving of init with log calls, once init computed it, it is the
\* number of bytes that were published and not released when the boot started.
C19_RecoveredLenExcludesThisBoot ==
    ipc \in {"id_read", "id_write", "ok"} => recovered_logs_len = b_acc - b_rel

\* C20: init does not consume recovered data: no step of init after the recovery
\* moves read, and when nothing was published and nothing released in this boot, a
\* Consumer::read after init starts at the read index the recovery left and returns
\* exactly recovered_logs_len bytes.
C20_InitKeepsRecovered ==
    /\ [][(rpc = "done" /\ ipc \in {"recover", "grant", "id_read", "id_write"}
             /\ ipc' # "none") => read' = read]_vars
    /\ [](ipc = "ok" /\ cpc = "granted" /\ Len(accepted) = b_acc /\ Len(released) = b_rel =>
            /\ g_read = read
            /\ g_len1 + g_len2 = recovered_logs_len
            /\ recovered_logs_len = b_acc - b_rel)

\* The first read after an init that recovered a byte a boot before it appended,
\* after bytes were released.
C20_Witness ==
    /\ ipc = "ok"
    /\ cpc = "granted"
    /\ Len(accepted) = b_acc
    /\ Len(released) = b_rel
    /\ b_rel >= 1
    /\ recovered_logs_len >= 1
    /\ g_len1 + g_len2 = recovered_logs_len
    /\ Numbered(accepted[Len(accepted)])

(***************************************************************************)
(* The logger: reentrancy, preemption, critical sections                   *)
(***************************************************************************)
\* The calls of log statement f, in order.
CallsOf(f) ==
    LET t == SelectSeq(trace, LAMBDA e : e[1] = f)
    IN  [i \in DOMAIN t |-> t[i][2]]

\* The value of the first call `name` of log statement f.
ValueOf(f, name) ==
    LET i == CHOOSE i \in DOMAIN trace : trace[i][1] = f /\ trace[i][2] = name
    IN  trace[i][3]

Called(f, name) == \E i \in DOMAIN trace : trace[i][1] = f /\ trace[i][2] = name

\* The log statements whose acquire observed depth >= 1.
Dropped == {f \in 1..frames : Called(f, "acquire") /\ ValueOf(f, "acquire") >= 1}

\* The calls of a log statement that owns the logger.
FullFrame(op) ==
    <<"acquire", "cs_acquire", "cs_store", "start_frame">>
        \o (IF op = "write" THEN <<"write">> ELSE <<>>)
        \o <<"end_frame", "cs_release", "wake">>

\* The positions of the calls of f in the trace.
Positions(f) == {i \in DOMAIN trace : trace[i][1] = f}

\* Every call made between the first and the last call of f is a call of f or
\* the acquire of a log statement in d.
OnlyInside(f, d) ==
    LET p == Positions(f)
    IN  \A j \in DOMAIN trace :
            ((\E i \in p : i < j) /\ (\E k \in p : j < k)) => trace[j][1] \in d \cup {f}

\* The contexts between their fetch_add and their fetch_sub.
Counted == {i \in DOMAIN stk :
                stk[i].pc \in {"cs_acquire", "cs_store", "start_frame", "body", "release"}}

\* C22: a log statement whose acquire observed depth >= 1 makes no call but
\* that acquire: no critical section is acquired or released, the saved token
\* and the encoder are not touched, nothing is appended and nothing is woken;
\* its release gives the depth back; and an outer log statement preempted by
\* dropped log statements only makes exactly the calls of an unpreempted one,
\* releasing the critical section with the token it acquired.
C22_ReentrantLogDropped ==
    LET d == Dropped
    IN  /\ \A f \in d : CallsOf(f) = <<"acquire">>
        /\ depth = Cardinality(Counted)
        /\ \A f \in (1..frames) \ d :
            OnlyInside(f, d) =>
                /\ \E op \in {"write", "flush"} : IsPrefix(CallsOf(f), FullFrame(op))
                /\ Called(f, "cs_release")
                       => ValueOf(f, "cs_release") = ValueOf(f, "cs_acquire")

\* A dropped log statement with a write has returned from its release, and the
\* log statement it preempted between start_frame and end_frame has finished.
C22_Witness ==
    \E o \in (1..frames) \ Dropped, f \in Dropped :
        /\ CallsOf(o) = FullFrame("write")
        /\ OnlyInside(o, Dropped)
        /\ \A i \in DOMAIN stk : stk[i].f # f
        /\ \E i, j, k \in DOMAIN trace :
            /\ i < j /\ j < k
            /\ trace[i] = <<o, "start_frame", 0>>
            /\ trace[j][1] = f
            /\ trace[k] = <<o, "end_frame", 0>>

\* The encoder calls made so far; each one hands its bytes to write_all, which
\* appends them to the ring (logger.rs:79-81, 48-56).
EncoderCalls == SelectSeq(trace, LAMBDA e : e[2] \in {"start_frame", "write", "end_frame"})

\* The frames started on the encoder and not ended.
OpenFrames == {f \in 1..frames : Called(f, "start_frame") /\ ~Called(f, "end_frame")}

\* C23: whatever preempts a log statement, at most one frame is open on the
\* encoder and the encoder calls of one frame, hence its bytes in the ring, are
\* contiguous.
C23_FrameNeverCorrupted ==
    LET enc == EncoderCalls
    IN  /\ Cardinality(OpenFrames) <= 1
        /\ \A i, k \in DOMAIN enc :
            (i < k /\ enc[i][1] = enc[k][1])
                => \A j \in i..k : enc[j][1] = enc[i][1]

\* The number of calls `name` of log statement f.
Count(f, name) == Cardinality({i \in DOMAIN trace : trace[i][1] = f /\ trace[i][2] = name})

\* C30: a log statement that owns the logger acquires the critical section
\* once and releases it once, with the token its acquire stored; when the
\* release has been made the depth is 0 and the interrupt mask is what it was
\* before the acquire.
C30_CriticalSectionPaired ==
    /\ \A f \in 1..frames :
        /\ Count(f, "cs_acquire") <= 1
        /\ Count(f, "cs_release") <= Count(f, "cs_acquire")
        /\ Called(f, "wake") => Count(f, "cs_release") = 1
        /\ Called(f, "cs_release")
               => ValueOf(f, "cs_release") = ValueOf(f, "cs_store")
    /\ (stk # <<>> /\ Top.pc = "wake")
           => /\ depth = 0
              /\ masked = ~ValueOf(Top.f, "cs_acquire")

\* The position of the first call `name` of log statement f.
PosOf(f, name) == CHOOSE i \in DOMAIN trace : trace[i][1] = f /\ trace[i][2] = name

\* Log statement f is inside the critical section it acquired.
HoldsCs(f) == Called(f, "cs_acquire") /\ ~Called(f, "cs_release")

\* C32: a log statement that calls wake has ended its frame before it released
\* the critical section and released it before the wake; no log statement
\* whose acquire observed depth >= 1 calls wake; and wake is not called while
\* a log statement holds the critical section.
C32_ReleaseOrder ==
    /\ \A f \in 1..frames :
        Called(f, "wake")
            => /\ Called(f, "end_frame") /\ Called(f, "cs_release")
               /\ PosOf(f, "end_frame") < PosOf(f, "cs_release")
               /\ PosOf(f, "cs_release") < PosOf(f, "wake")
    /\ \A f \in Dropped : ~Called(f, "wake")
    /\ (stk # <<>> /\ Top.pc = "wake") => \A f \in 1..frames : ~HoldsCs(f)

(***************************************************************************)
(* The data-ready waiter                                                   *)
(***************************************************************************)
\* Registration w has been woken.
Woken(w) == \E i \in DOMAIN woken : woken[i] = w

\* Registration w was replaced in the slot before any wake took it.
Replaced(w) == w \in 1..regs /\ w # waker /\ w \notin taken /\ ~Woken(w)

\* C25: the waiter holds at most one waker.  register puts the new waker in
\* the slot and whatever was there is dropped: it is never taken or woken
\* afterwards.  wake empties the slot and wakes what it took; on an empty slot
\* it changes nothing.  So no registration is woken twice, and the second of
\* two wakes with no register in between finds the slot empty.
C25_OneWaker ==
    /\ [](/\ \A i, j \in DOMAIN woken : woken[i] = woken[j] => i = j
          /\ waker \notin taken
          /\ \A w \in taken \cup {waker} : ~Woken(w)
          /\ waker \in {NoWaker, regs})
    /\ [][regs' # regs =>
            /\ waker' = regs'
            /\ taken' = taken /\ woken' = woken]_vars
    /\ [][owed' < owed =>
            /\ waker' = NoWaker
            /\ woken' = woken
            /\ taken' = IF waker = NoWaker THEN taken ELSE taken \cup {waker}]_vars
    /\ [][woken' # woken =>
            \E w \in taken : woken' = Append(woken, w) /\ taken' = taken \ {w}]_vars
    /\ [][\A w \in 1..regs : Replaced(w) => Replaced(w)']_vars

\* Two registrations and two finished wakes: the first registration was
\* replaced and never woken, one wake woke the second, the other woke nothing.
C25_Witness ==
    /\ regs = 2 /\ frames = 2 /\ owed = 0 /\ fpc = "idle"
    /\ taken = {} /\ waker = NoWaker
    /\ woken = <<2>>
    /\ Replaced(1)

\* The latest poll of wait_for_data returned Pending.
PendingNow == wpc = "idle" /\ w_res = "Pending"

\* A wake that will find the waker of the latest poll in the slot is ahead: a
\* log statement is between its acquire and the take of its wake.
WakeAhead == waker = w_id /\ (fpc = "frame" \/ owed > 0)

\* C21: no lost wakeup.  A poll checks emptiness only after it registered its
\* waker; whenever the latest poll returned Pending and the ring holds bytes,
\* its waker has been woken, has been taken by a wake, or is in the slot with
\* a wake still ahead; and, log statements running to their end, a consumer
\* that is Pending while the ring holds bytes is woken or polls again.
C21_NoLostWakeup ==
    /\ [](wpc \in {"load_write", "load_read"}
             => w_id = regs /\ (waker = w_id \/ w_id \in taken \/ Woken(w_id)))
    /\ []((PendingNow /\ write # read)
             => (Woken(w_id) \/ w_id \in taken \/ WakeAhead))
    /\ (PendingNow /\ write # read) ~> (~PendingNow \/ Woken(w_id))

\* A poll returned Pending, a log statement appended a byte after the poll's
\* load of the write index, and its wake woke the waker of that poll.
C21_Witness ==
    /\ PendingNow /\ write # read
    /\ Len(accepted) > b_acc /\ Numbered(accepted[Len(accepted)])
    /\ Woken(w_id)
    /\ frames = 1 /\ fpc = "idle" /\ owed = 0

\* The latest poll returned Ready and the consumer has released nothing since.
ReadyUnreleased == wpc = "idle" /\ w_res = "Ready" /\ Len(released) = w_rel

\* C29: the step that ends a poll returns Pending exactly when the write index
\* the poll loaded equals the read index, which is when the ring was empty at
\* that load; after a Ready the ring holds bytes until the consumer releases
\* some, whatever the producer does, and a grant taken meanwhile holds at
\* least one byte.
C29_ReadyMeansData ==
    /\ [][(wpc = "load_read" /\ wpc' = "idle") =>
            /\ (w_res' = "Pending") = (c_write = read)
            /\ (w_res' = "Ready") = (c_write # read)
            /\ w_res' = "Ready" => write' # read']_vars
    /\ [](ReadyUnreleased =>
            /\ write # read
            /\ cpc = "granted" => g_len1 + g_len2 >= 1)

\* After a Ready the producer was handed another byte, and the consumer's
\* read returned the byte that made the poll Ready.
C29_Witness ==
    /\ ReadyUnreleased
    /\ cpc = "granted" /\ g_len1 + g_len2 >= 1
    /\ offered = 2 /\ ppc = "ret"
    /\ Numbered(GrantBytes[1])

(***************************************************************************)
(* The async scenario of the test suite                                    *)
(***************************************************************************)
BothDone == exec.a_pc = "done" /\ exec.b_pc = "done"

\* C24: the writer task and the reader task both complete; the reader has
\* then written to the uart exactly the bytes of the three frames, in the
\* order they were logged, and the ring is empty.  On the way every frame is
\* delivered before the next one is logged.
C24_AsyncScenarioTerminates ==
    /\ <>BothDone
    /\ [](BothDone =>
            /\ frames = TestFrames /\ exec.b_iter = TestFrames
            /\ offered >= TestFrames
            /\ released = [i \in 1..offered |-> i]
            /\ accepted = released
            /\ read = write)
    /\ [](/\ exec.a_logged <= exec.b_iter + 1
          /\ exec.a_pc = "logging" => Len(released) = exec.a_off
          /\ IsPrefix(released, [i \in 1..offered |-> i]))

\* Both tasks are done after six polls of wait_for_data, three Pending and
\* three Ready; one of the three frames had two bytes.
C24_Witness ==
    /\ BothDone /\ exec.turn = "end"
    /\ regs = 2 * TestFrames /\ exec.b_polls = regs
    /\ offered = TestFrames + 1
    /\ Len(released) = offered

(***************************************************************************)
(* Ownership of the data bytes, the repair path                            *)
(***************************************************************************)
\* The n data indices from index `from` on, wrapping at the end.
Indices(from, n) == {(from + j) % data_len : j \in 0..(n - 1)}

\* The indices the consumer owns: [read, write) modulo data_len.
ConsumerOwned == Indices(read, (write - read) % data_len)

\* The indices of the two slices of the live grant.
GrantIndices == Indices(g_read, g_len1 + g_len2)

RepairPcs == {"repair_load", "repair_fix", "repair_fix2"}

\* A step taken on the repair path keeps the header and every data byte, and
\* keeps the indices too when both loaded indices are in range.
RepairStepKeeps ==
    rpc \in RepairPcs =>
        (/\ header' = header /\ data' = data /\ data_len' = data_len
         /\ (r_read < data_len /\ r_write < data_len /\ rpc # "repair_load")
                => (read' = read /\ write' = write))

\* A step of recovery on a region that is already valid changes no byte of it.
ValidStepKeeps ==
    (ValidRegion /\ rpc \in {"check", "repair_load", "repair_fix"}) =>
        (/\ UNCHANGED region
         /\ rpc' \in {"check", "repair_load", "repair_fix", "split"})

\* C28: no step of the repair path changes the header or a data byte; when
\* the indices it loaded are both in range it changes nothing at all, so a
\* region with the magic header and both indices in range comes out of
\* recovery as it went in.
C28_RepairKeepsHeaderAndData ==
    /\ [][RepairStepKeeps]_vars
    /\ [][ValidStepKeeps]_vars
    /\ [](rpc \in RepairPcs => header = MAGIC)

\* Recovery took the repair path on a region holding two bytes, readable
\* across the end of the data area, and has accepted it.
C28_Witness ==
    /\ rpc = "split" /\ ~r_fresh
    /\ ValidRegion /\ write < read
    /\ Len(ReadAll) = 2
    /\ offered = 0 /\ released = <<>>

(***************************************************************************)
(* Appends under both layouts.  The ecc-64bit build adds the padding slots *)
(* after read and write, a flush of the last block written, and a store to *)
(* a padding slot after every index store.  Its data area is 8-byte        *)
(* aligned at both ends (ring_buffer.rs:125, :242).                        *)
(***************************************************************************)
\* Largest data area of the default build modelled here.
AppendPlainLen == 2

\* Number of source bytes the producer is handed here.
AppendOffered == 2

\* ring_buffer.rs:242, the smallest data area of the ecc-64bit build
EccDataLen == 8

\* ring_buffer.rs:42-51, the two u32 padding slots of the ecc-64bit layout
SizeOfLayout == IF ecc THEN SizeOfRingBuffer + 8 ELSE SizeOfRingBuffer

\* The region after init, with nothing, all but one byte, or everything that
\* fits left unread from an earlier boot.
InitAppend ==
    /\ ecc \in BOOLEAN
    /\ pad_read = 0 /\ pad_write = 0 /\ cache = NoCache /\ first = NotRerun
    /\ LoggerIdle /\ WaiterIdle /\ ExecIdle
    /\ mem_start = 0
    /\ data_len \in (IF ecc THEN {EccDataLen} ELSE 1..AppendPlainLen)
    /\ mem_len = SizeOfLayout + data_len
    /\ header = (IF ecc THEN MAGIC_ECC ELSE MAGIC)
    /\ read \in 0..(data_len - 1)
    /\ \E n \in {0, data_len - 2, data_len - 1} :
        n >= 0 /\ write = (read + n) % data_len
    /\ data = [i \in 0..(data_len - 1) |-> Garbage(i)]
    /\ identifier = ZEROED_ID
    /\ rpc = "done" /\ r_read = 0 /\ r_write = 0 /\ r_fresh = FALSE /\ r_hw = {}
    /\ ppc = "idle" /\ p_src = <<>> /\ p_read = 0 /\ p_write = 0 /\ p_len = 0 /\ p_i = 0
    /\ cpc = "idle" /\ c_write = 0 /\ c_empty = FALSE
    /\ g_read = 0 /\ g_len1 = 0 /\ g_len2 = 0
    /\ offered = 0 /\ accepted = ReadAll /\ released = <<>>
    /\ INITIALIZED = TRUE /\ initialized = TRUE /\ ipc = "done" /\ i_f = "keep"
    /\ old_identifier = ZEROED_ID /\ recovered_logs_len = 0
    /\ i_res = <<>> /\ b_acc = 0 /\ b_rel = 0

NextAppend ==
    \/ \E k \in 0..MaxK : (offered + k <= AppendOffered /\ WriteLoadRead(k))
    \/ WriteLoadWrite
    \/ WriteCopy
    \/ WriteFlush
    \/ WriteStore
    \/ WritePad
    \/ ReadLoadWrite
    \/ ReadLoadRead
    \/ \E used \in {0, 1, USIZE_MAX} : Release(used)
    \/ ReleasePad
    \/ DropGrant

SpecAppend == InitAppend /\ [][NextAppend]_vars

\* The call at its length test can store nothing: the input is empty, or the
\* ring is full for the indices the call loaded (always so when data_len = 1).
StoresNothing ==
    \/ Len(p_src) = 0
    \/ (write - p_read) % data_len = data_len - 1
    \/ data_len = 1

\* The length test of such a call returns, and changes nothing.
ReturnsUntouched ==
    (ppc = "load_write" /\ ppc' # "load_write" /\ StoresNothing) =>
        (ppc' = "ret" /\ UNCHANGED <<region, padding, history>>)

\* Entering Producer::write changes nothing.
EntersUntouched ==
    (ppc \in {"idle", "ret"} /\ ppc' = "load_write") => UNCHANGED <<region, padding>>

\* C26: an append that can store nothing (empty input, full ring, or a data
\* area of one byte) returns from its length test with write, read, header,
\* every data byte and both padding slots unchanged; only a call that stores at
\* least one byte reaches the copy, the flush, the index store or the padding
\* store.
C26_ZeroLengthAppendMutatesNothing ==
    /\ [][ReturnsUntouched]_vars
    /\ [][EntersUntouched]_vars
    /\ [](ppc \in {"copy", "flush", "store", "pad"}
            => (p_len > 0 /\ Len(p_src) > 0 /\ available(p_read, p_write) > 0))

\* The ecc-64bit build refused a non-empty append on a full ring, after an
\* append that stored a byte and wrote the padding slot.
C26_Witness ==
    /\ ecc /\ ppc = "ret" /\ p_len = 0 /\ Len(p_src) > 0
    /\ (write - read) % data_len = data_len - 1
    /\ \E i \in DOMAIN accepted : Numbered(accepted[i])

(***************************************************************************)
(* Resets inside ring operations                                           *)
(***************************************************************************)
\* The set of the elements of a sequence.
Elems(q) == {q[i] : i \in DOMAIN q}

\* Producer::write computed a non-zero length and has not returned.
Appending == ppc \in {"copy", "flush", "store"}

\* C33: a reset at any point of an append or a release, followed by recovery,
\* leaves indices in range and a readable sequence that is the published bytes
\* minus the released ones, where an append publishes at its index store and a
\* release releases at its index store: the sequence before the operation or
\* the one after it.  No source byte of an append that has not stored its
\* index is readable, before or after the reset.
C33_CrashAtomicRingOps ==
    /\ Recovered =>
        /\ InRange(read) /\ InRange(write) /\ header = MAGIC
        /\ Lossless
        /\ \A b \in Elems(ReadAll) : Numbered(b) => b \in Elems(accepted)
    /\ (rpc = "done" /\ Appending) =>
        /\ Elems(p_src) \cap Elems(ReadAll) = {}
        /\ Elems(p_src) \cap Elems(accepted) = {}
    /\ (rpc = "done" /\ ppc = "ret") =>
        /\ Len(accepted) >= p_len
        /\ Suffix(accepted, p_len) = SubSeq(p_src, 1, p_len)

\* Recovery ended after a reset that cut an append between its first copy and
\* its index store: the data area holds a source byte that was never published,
\* next to bytes of an earlier append that are readable.
C33_Witness ==
    /\ rpc = "split" /\ ppc = "idle" /\ ~r_fresh
    /\ \E i \in DOMAIN data : Numbered(data[i]) /\ data[i] \notin Elems(accepted)
    /\ \E b \in Elems(ReadAll) : Numbered(b)

(***************************************************************************)
(* Capacity, stale indices, wrapping copies, releases under appends        *)
(***************************************************************************)
\* The bytes between index r and index w, modulo data_len.
Between(r, w) == (w - r) % data_len

\* C36: the length an append computed from the read index it loaded is at
\* most the free space for the read index of the moment, whatever the
\* consumer released in between: the loaded index lies between the write
\* index and the current one, the bytes copied stay outside the unreleased
\* range, and the write index the append is going to store differs from the
\* current read index.
C36_StaleReadIsSafe ==
    (ppc \in {"copy", "flush", "store"}) =>
        /\ p_write = write
        /\ Between(p_read, write) >= Between(read, write)
        /\ available(p_read, p_write) <= available(read, write)
        /\ p_len <= available(read, write)
        /\ NewWrite # read
        /\ \A i \in 0..(p_len - 1) : CopyDst(i) \notin Indices(read, Between(read, write))

\* An append is copying with a read index the consumer has advanced since.
C36_Witness ==
    /\ ppc = "copy" /\ p_i > 0
    /\ p_read # read
    /\ available(p_read, p_write) < available(read, write)
    /\ p_len = available(p_read, p_write)

\* C37: for every pair of in-range indices available is
\* data_len - 1 - ((write - read) mod data_len); at most data_len - 1 bytes are
\* readable, and an append that stores a byte never makes write equal to read.
C37_AvailableFormula ==
    /\ \A r, w \in 0..(data_len - 1) :
        /\ available(r, w) = data_len - 1 - ((w - r) % data_len)
        /\ available(r, w) \in 0..(data_len - 1)
    /\ Len(ReadAll) <= data_len - 1
    /\ Len(accepted) - Len(released) <= data_len - 1
    /\ ppc \in {"copy", "flush", "store"} =>
        /\ Between(read, NewWrite) = Between(read, write) + p_len
        /\ Between(read, NewWrite) \in 1..(data_len - 1)
    /\ (Between(read, write) = data_len - 1 /\ data_len > 1) => ~IsEmptyResult(write, read)

\* An append filled the ring to data_len - 1 bytes, across the end of the data
\* area.
C37_Witness ==
    /\ ppc \in {"ret", "pad"} /\ p_len > 1
    /\ Between(read, write) = data_len - 1
    /\ write < p_write
    /\ available(read, write) = 0

\* What a read returns once the grant gave n bytes back.
ReadAllAfter(n) ==
    LET r == NewRead(n)
        l == ReadLens(r, write)
        b == Bufs(r, l[1], l[2])
    IN  b[1] \o b[2]

\* C38: a release of any n moves read by at most the bytes of the grant, that
\* is at most to the write index the grant was taken with, whatever was
\* appended since; what the next read returns is every published byte but the
\* released ones, the bytes appended after the grant was taken among them.
C38_ReleaseBoundedByGrant ==
    /\ cpc = "granted" =>
        /\ g_len1 + g_len2 = Between(g_read, c_write)
        /\ Between(g_read, c_write) <= Between(g_read, write)
        /\ \A n \in 0..(data_len + 1) \cup {USIZE_MAX} :
            /\ Between(g_read, NewRead(n)) = Used(n)
            /\ Used(n) <= Between(g_read, c_write)
            /\ ReadAllAfter(n)
                 = SubSeq(accepted, Len(released) + Used(n) + 1, Len(accepted))
            /\ Len(ReadAllAfter(n)) >= Between(c_write, write)
    /\ cpc \in {"idle", "pad"} => Lossless

\* release_all gave a whole grant back after an append had stored bytes behind
\* it: read stands at the write index the grant was taken with and the bytes
\* appended since are readable.
C38_Witness ==
    /\ cpc \in {"idle", "pad"}
    /\ released # <<>> /\ Numbered(released[Len(released)])
    /\ read = c_write /\ write # c_write
    /\ ReadAll # <<>> /\ Len(ReadAll) = Between(c_write, write)

\* The copy of the call in progress is the two-part copy.
CopyWraps == p_write + p_len > data_len

\* C40: the two-part copy is taken only with write >= read, for the read index
\* the call loaded and for the one of the moment, and its second part writes
\* indices strictly below both; with write < read the copy is one piece that
\* ends before read.
C40_WrapOnlyWhenWriteNotBelowRead ==
    (ppc \in {"copy", "flush", "store"}) =>
        /\ CopyWraps =>
            /\ p_write >= p_read /\ p_write >= read
            /\ \A i \in (data_len - p_write)..(p_len - 1) :
                CopyDst(i) < p_read /\ CopyDst(i) < read
            /\ \A i \in 0..(data_len - p_write - 1) : CopyDst(i) = p_write + i
        /\ p_write < p_read => (~CopyWraps /\ p_write + p_len <= p_read - 1)
        /\ p_write < read => (~CopyWraps /\ p_write + p_len <= read - 1)
        /\ ~CopyWraps => \A i \in 0..(p_len - 1) : CopyDst(i) = p_write + i

\* The second part of a two-part copy is about to write index 0, below a read
\* index that is not 0.
C40_Witness ==
    /\ ppc = "copy" /\ CopyWraps
    /\ p_i = data_len - p_write /\ CopyDst(p_i) = 0
    /\ read > 0 /\ write >= read

(***************************************************************************)
(* recover_or_reinitialize run twice in a row on one region                *)
(***************************************************************************)
\* The second run starts where the first one ended, with nothing in between.
RecoverAgain ==
    /\ rpc = "split"
    /\ first = NotRerun
    /\ first' = <<region>>
    /\ ClearLocals
    /\ UNCHANGED <<region, history, boot, logger, waiter, exec, padding, cache>>

NextTwice ==
    \/ RecoverCheck
    \/ FreshRead
    \/ FreshWrite
    \/ \E wd \in 1..4 : FreshMagic(wd)
    \/ RepairLoad
    \/ RepairFix
    \/ RepairFix2
    \/ RecoverAgain

\* Every header, every pair of indices in and out of range, then two runs.
SpecTwice == Init /\ [][NextTwice]_vars

\* C39: for every header and every pair of index values, a second run of
\* recover_or_reinitialize right after a first one changes neither header,
\* read, write nor a data byte at any of its steps, takes the repair path
\* with both indices in range, and ends on the region the first run left.
C39_RecoveryIdempotent ==
    first # NotRerun =>
        /\ <<region>> = first
        /\ rpc # "check" => ~r_fresh
        /\ rpc \in {"check", "repair_load", "repair_fix", "split"}
        /\ rpc = "split" => (IndexOk(r_read) /\ IndexOk(r_write))

\* The second run ended on a region the first run left with the magic header
\* and both indices at 0.
C39_Witness ==
    /\ first # NotRerun /\ rpc = "split"
    /\ header = MAGIC /\ read = 0 /\ write = 0
    /\ data_len > 1

(***************************************************************************)
(* Log statements before and after LOGGER_STATE.initialize, logger.rs:36-56 *)
(***************************************************************************)
\* Log statements whose output is dropped, in one behaviour.
MaxDropped == 2

\* logger.rs:48-56  LoggerState::write with the flag loaded false: the bytes of
\* the encoder are dropped and Producer::write is not called.  `frames` counts
\* these calls.
LoggerSkip ==
    /\ ~SeesInitialized
    /\ frames' = frames + 1
    /\ UNCHANGED <<ring, boot, depth, cs_state, masked, stk, trace, waiter, exec,
                   padding, extra>>

\* One boot: init on a small region, log statements from interrupt handlers
\* at every point of it.
NextFlag ==
    \/ \E f \in Closures : FirstInitCall(f)
    \/ InitAlign
    \/ InitSmall
    \/ InitLarge
    \/ InitRecover
    \/ InitLogger
    \/ InitGrant
    \/ InitLen
    \/ InitIdRead
    \/ InitIdWrite
    \/ (frames < MaxDropped /\ LoggerSkip)
    \/ \E k \in 0..InitOffered : LoggerWrite(k)
    \/ WriteLoadWrite
    \/ WriteCopy
    \/ WriteStore

SpecFlag == InitBoot /\ [][NextFlag]_vars

\* While the flag is false no step hands bytes to Producer::write or
\* publishes any, and a log statement changes nothing of the region.
QuietBeforeFlag ==
    ~initialized =>
        /\ offered' = offered /\ accepted' = accepted
        /\ ppc' = "idle" /\ p_src' = <<>>
        /\ frames' # frames => UNCHANGED <<region, identifier, recovery, producer>>

\* With the flag true no log statement is dropped: its bytes are the source of
\* a Producer::write call.
PassedAfterFlag ==
    /\ initialized => frames' = frames
    /\ offered' # offered =>
        /\ initialized /\ rpc = "done"
        /\ ppc' = "load_write" /\ Len(p_src') = offered' - offered

\* C31: while the initialized flag is false the logger appends nothing and
\* leaves the persist region alone: no Producer::write call starts or is in
\* progress and the bytes of a log statement are dropped; once the flag is
\* true every output of the encoder is the argument of a Producer::write call.
C31_NoWriteBeforeInitialized ==
    /\ [][QuietBeforeFlag]_vars
    /\ [][PassedAfterFlag]_vars
    /\ [](~initialized => (ppc = "idle" /\ offered = 0))
    /\ [](initialized => rpc = "done")

\* Two log statements were dropped before the flag was set, and one made after
\* it has stored bytes in the ring; init has returned Ok.
C31_Witness ==
    /\ frames = 2 /\ initialized
    /\ ppc = "ret" /\ p_len > 0
    /\ ipc = "ok"

(***************************************************************************)
(* What a reset keeps: the ecc-64bit layout                                *)
(***************************************************************************)
\* Largest data area of the ecc-64bit build here, in 64-bit words.
EccBlocks == 2

\* Number of source bytes the producer is handed here.
EccOffered == 2

\* The ecc-64bit build after init: the write index before the end of a 64-bit
\* word or of the data area, the ring empty or with two bytes free.
InitEcc ==
    /\ ecc = TRUE
    /\ pad_read = 0 /\ pad_write = 0 /\ cache = NoCache /\ first = NotRerun
    /\ LoggerIdle /\ WaiterIdle /\ ExecIdle
    /\ mem_start = 0
    /\ data_len \in {EccDataLen * b : b \in 1..EccBlocks}
    /\ mem_len = SizeOfLayout + data_len
    /\ header = MAGIC_ECC
    /\ write \in {6, 7, data_len - 1}
    /\ \E free \in {2, data_len - 1} : read = (write + 1 + free) % data_len
    /\ data = [i \in 0..(data_len - 1) |-> Garbage(i)]
    /\ identifier = ZEROED_ID
    /\ rpc = "done" /\ r_read = 0 /\ r_write = 0 /\ r_fresh = FALSE /\ r_hw = {}
    /\ ppc = "idle" /\ p_src = <<>> /\ p_read = 0 /\ p_write = 0 /\ p_len = 0 /\ p_i = 0
    /\ cpc = "idle" /\ c_write = 0 /\ c_empty = FALSE
    /\ g_read = 0 /\ g_len1 = 0 /\ g_len2 = 0
    /\ offered = 0 /\ accepted = ReadAll /\ released = <<>>
    /\ INITIALIZED = TRUE /\ initialized = TRUE /\ ipc = "done" /\ i_f = "keep"
    /\ old_identifier = ZEROED_ID /\ recovered_logs_len = 0
    /\ i_res = <<>> /\ b_acc = 0 /\ b_rel = 0

NextEcc ==
    \/ \E k \in 0..MaxK : (offered + k <= EccOffered /\ WriteLoadRead(k))
    \/ WriteLoadWrite
    \/ WriteCopy
    \/ WriteFlush
    \/ WriteStore
    \/ WritePad
    \/ ReadLoadWrite
    \/ ReadLoadRead
    \/ \E used \in {1, USIZE_MAX} : Release(used)
    \/ ReleasePad

SpecEcc == InitEcc /\ [][NextEcc]_vars

\* The write index a reset at this point leaves in memory.
DurableWrite == IF cache.w = WriteWord THEN cache.old[1] ELSE write

\* The read index a reset at this point leaves in memory.
DurableRead == IF cache.w = ReadWord THEN cache.old[1] ELSE read

\* Data byte i as a reset at this point leaves it in memory.
DurableData(i) == IF cache.w = DataWord(i) THEN cache.old[(i % 8) + 1] ELSE data[i]

\* The data bytes a reset at this point loses.
Uncommitted == {i \in 0..(data_len - 1) : cache.w = DataWord(i) /\ (i % 8) \in cache.parts}

\* The data indices between the read and the write index that a reset at this
\* point leaves in memory.
DurableCovered == Indices(DurableRead, (DurableWrite - DurableRead) % data_len)

\* C34: in the ecc-64bit layout, when the write index is about to be stored
\* every byte the call copied is committed; when the call has returned after
\* storing the index, the index is committed; and at every point the committed
\* indices cover no data byte that a reset would lose: every covered byte is in
\* memory as the program sees it.
C34_EccCommitDiscipline ==
    ecc =>
        /\ ppc = "store" =>
               \A i \in 0..(p_len - 1) : DurableData(CopyDst(i)) = p_src[i + 1]
        /\ (ppc = "ret" /\ p_len > 0) => DurableWrite = write
        /\ DurableCovered \cap Uncommitted = {}
        /\ \A i \in DurableCovered : DurableData(i) = data[i]

\* A call has copied bytes into two 64-bit words, flushed the last one, stored
\* the write index and written its padding slot, and the bytes are published.
C34_Witness ==
    /\ ecc /\ ppc = "ret" /\ p_len = 2
    /\ DataWord(CopyDst(0)) # DataWord(CopyDst(1))
    /\ cache = NoCache
    /\ write = NewWrite

(***************************************************************************)
(* Recovery of the ecc-64bit build                                         *)
(***************************************************************************)
\* A region of the ecc-64bit build at power-up: the header of this build, of
\* the default build or zero, the indices and the padding slots in any state,
\* nothing waiting in the write cache.
InitEccRecover ==
    /\ ecc = TRUE
    /\ pad_read \in {0, 1} /\ pad_write \in {0, 1}
    /\ cache = NoCache /\ first = NotRerun
    /\ LoggerIdle /\ WaiterIdle /\ ExecIdle
    /\ mem_start = 0
    /\ data_len = EccDataLen
    /\ mem_len = SizeOfLayout + data_len
    /\ header \in {MAGIC_ECC, MAGIC, ZeroHeader}
    /\ read \in {0, data_len - 1, data_len}
    /\ write \in {0, data_len - 1, data_len}
    /\ data = [i \in 0..(data_len - 1) |-> Garbage(i)]
    /\ identifier = ZEROED_ID
    /\ rpc = "check" /\ r_read = 0 /\ r_write = 0 /\ r_fresh = FALSE /\ r_hw = {}
    /\ ppc = "idle" /\ p_src = <<>> /\ p_read = 0 /\ p_write = 0 /\ p_len = 0 /\ p_i = 0
    /\ cpc = "idle" /\ c_write = 0 /\ c_empty = FALSE
    /\ g_read = 0 /\ g_len1 = 0 /\ g_len2 = 0
    /\ offered = 0 /\ accepted = <<>> /\ released = <<>>
    /\ INITIALIZED = TRUE /\ initialized = FALSE /\ ipc = "recover" /\ i_f = "keep"
    /\ old_identifier = ZEROED_ID /\ recovered_logs_len = 0
    /\ i_res = <<>> /\ b_acc = 0 /\ b_rel = 0

NextEccRecover ==
    \/ RecoverCheck
    \/ FreshRead
    \/ FreshReadPad
    \/ FreshWrite
    \/ FreshWritePad
    \/ \E wd \in 1..4 : FreshMagic(wd)
    \/ RepairLoad
    \/ RepairFix
    \/ RepairFix2
    \/ RepairPadRead
    \/ RepairPadWrite
    \/ Split

SpecEccRecover == InitEccRecover /\ [][NextEccRecover]_vars

\* The header a reset at this point leaves in memory.
DurableHeader ==
    [i \in 1..16 |-> IF cache.w = <<"header", (i - 1) \div 8>>
                     THEN cache.old[((i - 1) % 8) + 1]
                     ELSE header[i]]

\* The fresh path before its header store.
BeforeMagic == {"fresh_read", "fresh_read_pad", "fresh_write", "fresh_write_pad"}

====
